---- MODULE Spec2Model ----
(***************************************************************************)
(* A model of crates/core/src/storage/mod.rs of delta-rs: the object store *)
(* registry (DefaultObjectStoreRegistry), the factory registry and         *)
(* store_for, the default factory and its decorators, and the runtime      *)
(* isolation wrapper DeltaIOStorageBackend.                                *)
(*                                                                         *)
(* Each subsystem has its own specification over the module's variables:   *)
(*   SpecRegistrySeq  any sequence of register_store / get_store calls     *)
(*   SpecRegistry     register_store / get_store under concurrent threads  *)
(*   SpecFactory      store_for, parse_url_opts and the stores they make   *)
(*   SpecLimit        limit_store_handler and callers of its store         *)
(*   SpecLimitLive    SpecLimit, operations completing, permits handed out *)
(*   SpecIO           callers of a DeltaIOStorageBackend and its tasks      *)
(*   SpecIOLive       callers that may abandon calls, tasks being run      *)
(*   SpecRuntime      threads obtaining the handle of the IO runtime       *)
(*   SpecRetry        parse_retry_config on option maps                    *)
(*   SpecCommitUri    commit_uri_from_version on versions                  *)
(*   SpecDecorate     the default factory and url_prefix_handler on inputs *)
(*   SpecFactoryRegistry  threads on factories(), its inserts and lookups  *)
(*   SpecRegistryLog  concurrent register_store calls, each with its store *)
(***************************************************************************)
EXTENDS Integers, Sequences, FiniteSets, TLC

\* Bounds of the model.
NumThreads == 2
NumShards == 2

\* Option<T>: None is the empty sequence, Some(x) the one-element sequence.
None == <<>>
Some(x) == <<x>>

(***************************************************************************)
(* URLs.  A url::Url is modelled by its components: the scheme, whether    *)
(* the url has an authority ("//" follows the scheme), the username, the   *)
(* password, the host (each "" for none), the port (None or its digits),   *)
(* the path, the query and the fragment.  The path of a url that can be a  *)
(* base is the sequence of its "/"-separated segments (<<>> is the empty   *)
(* path, <<"">> is "/", <<"a", "">> is "/a/"); the path of a url that      *)
(* cannot be a base ("memory:a") is the one text after the scheme.         *)
(***************************************************************************)
MkUrl(scheme, host, path, query) ==
    [scheme |-> scheme, authority |-> TRUE, username |-> "", password |-> "",
     host |-> host, port |-> None, cannot_be_a_base |-> FALSE, path |-> path,
     query |-> query, fragment |-> None]

\* scheme ":" path: a url without an authority, its path rooted ("memory:/a").
NoAuthority(url) == [url EXCEPT !.authority = FALSE, !.host = ""]

\* scheme ":" text: a url that cannot be a base ("memory:a").
CannotBeABase(scheme, text) ==
    [NoAuthority(MkUrl(scheme, "", <<text>>, None))
        EXCEPT !.cannot_be_a_base = TRUE]

\* The segments of a path as a string.
RECURSIVE PathStr(_)
PathStr(segs) ==
    IF segs = <<>> THEN "" ELSE "/" \o Head(segs) \o PathStr(Tail(segs))

\* Url::path
UrlPath(url) ==
    IF url.cannot_be_a_base THEN url.path[1] ELSE PathStr(url.path)

\* Url::path_segments: None for a url that cannot be a base and for a path
\* that does not start with "/".
path_segments(url) ==
    IF url.cannot_be_a_base \/ url.path = <<>> THEN None ELSE Some(url.path)

\* The userinfo, host and port of the serialization.
AuthorityStr(url) ==
    (IF url.username = "" /\ url.password = "" THEN ""
     ELSE url.username \o
          (IF url.password = "" THEN "" ELSE ":" \o url.password) \o "@")
    \o url.host \o
    (IF url.port = None THEN "" ELSE ":" \o url.port[1])

\* Url::to_string, the serialization: scheme ":" [ "//" authority ] path
\* [ "?" query ] [ "#" fragment ]; a path that starts with "//" after no
\* authority is written after "/.".
to_string(url) ==
    url.scheme \o ":" \o
    (IF url.authority THEN "//" \o AuthorityStr(url)
     ELSE IF ~url.cannot_be_a_base /\ Len(url.path) > 1 /\ url.path[1] = ""
          THEN "/." ELSE "") \o
    UrlPath(url) \o
    (IF url.query = None THEN "" ELSE "?" \o url.query[1]) \o
    (IF url.fragment = None THEN "" ELSE "#" \o url.fragment[1])

\* The URLs of the registry's callers: two differ only in path, two only in
\* query, two only in the fragment, two only in userinfo and port, two only
\* in having an authority.
RegUrls ==
    { MkUrl("memory", "h", <<"a">>, None),
      MkUrl("memory", "h", <<"b">>, None),
      MkUrl("memory", "h", <<"a">>, Some("v")),
      [MkUrl("memory", "h", <<"a">>, None) EXCEPT !.fragment = Some("frag")],
      [MkUrl("memory", "h", <<"a">>, None)
          EXCEPT !.username = "u", !.password = "p", !.port = Some("1")],
      MkUrl("memory", "", <<"a">>, None),
      NoAuthority(MkUrl("memory", "", <<"a">>, None)) }

\* The URLs concurrent threads contend on.
ConcUrls ==
    { MkUrl("memory", "h", <<"a">>, None),
      MkUrl("memory", "h", <<"b">>, None) }

\* Arc<dyn ObjectStore> is a fat pointer: a data word and a vtable word.
StoreIds == {"A", "B"}
Arc(s) == [data |-> s, vtable |-> s]
Whole(p) == p.data = p.vtable

VARIABLES
    objectStores,   \* DefaultObjectStoreRegistry.object_stores: key -> Arc
    shardWriter,    \* DashMap shard -> thread holding its write lock, or 0
    shardReaders,   \* DashMap shard -> threads holding its read lock
    pc,             \* thread -> position in register_store / get_store
    argUrl,         \* thread -> the url argument of its call
    argStore,       \* thread -> the store argument of its register_store
    old,            \* thread -> the value its insert displaced
    ret,            \* thread -> the value its call returned
    lastReg,        \* history: url -> store of the latest register_store
    expect,         \* history: thread -> entry of its url when it took effect
    seen            \* history: thread -> entries of its url during its call

regVars ==
    <<objectStores, shardWriter, shardReaders, pc, argUrl, argStore, old, ret,
      lastReg, expect, seen>>

Threads == 1 .. NumThreads
Shards == 0 .. (NumShards - 1)

\* The key register_store and get_store use: url.to_string().
KeyOfByScheme(url) == url.scheme \o "://"
KeyOf(url) == to_string(url)

\* DashMap::determine_map: the shard of a key (a hash of the key).
ShardOf(key) == Len(key) % NumShards

\* RwLock of a shard.
CanWriteLockUnsync(sh) == TRUE
CanWriteLock(sh) == shardWriter[sh] = 0 /\ shardReaders[sh] = {}
CanReadLockUnsync(sh) == TRUE
CanReadLock(sh) == shardWriter[sh] = 0

\* HashMap contents as a function over the present keys.
MapGet(map, key) == IF key \in DOMAIN map THEN Some(map[key]) ELSE None
MapPut(map, key, v) ==
    [k \in DOMAIN map \cup {key} |-> IF k = key THEN v ELSE map[k]]

DeltaGeneric(msg) == [kind |-> "Generic", msg |-> msg]
Ok(v) == [ok |-> TRUE, val |-> Some(v), err |-> DeltaGeneric("")]
Err(e) == [ok |-> FALSE, val |-> None, err |-> e]

\* The character U+0060, by its code point.  A text that holds it is the
\* sequence of its pieces, the character standing between them.
Backtick == <<96>>

\* format!("No suitable object store found for {url}. See ..")
NotFoundMsg(url) ==
    <<"No suitable object store found for " \o to_string(url) \o ". See ",
      Backtick, "RuntimeEnv::register_object_store", Backtick>>

\* The panic message of Result::unwrap on an Err whose Debug text is debug.
UnwrapErrMsg(debug) ==
    <<"called ", Backtick, "Result::unwrap()", Backtick, " on an ", Backtick,
      "Err", Backtick, " value: " \o debug>>

\* get_store on the entry a lookup found: .map(Arc::clone).ok_or_else(..)
GetStoreOfDefault(entry, url) ==
    IF entry = None THEN Ok(Arc("A")) ELSE Ok(entry[1])
GetStoreOf(entry, url) ==
    IF entry = None THEN Err(DeltaGeneric(NotFoundMsg(url))) ELSE Ok(entry[1])

\* get_store as a function of the map (what a call running alone returns).
GetStoreResult(map, url) == GetStoreOf(MapGet(map, KeyOf(url)), url)

\* What register_store returns: the displaced value.
RegisterReturnsNew(displaced, new) == Some(new)
RegisterReturns(displaced, new) == displaced

\* The locals of a thread that is in no call.
DefaultUrl == MkUrl("memory", "h", <<"a">>, None)
NoRet == Err(DeltaGeneric(""))

InitRegistryVars ==
    /\ objectStores = [k \in {} |-> Arc("A")]
    /\ shardWriter = [sh \in Shards |-> 0]
    /\ shardReaders = [sh \in Shards |-> {}]
    /\ pc = [t \in Threads |-> "idle"]
    /\ argUrl = [t \in Threads |-> DefaultUrl]
    /\ argStore = [t \in Threads |-> "A"]
    /\ old = [t \in Threads |-> None]
    /\ ret = [t \in Threads |-> NoRet]
    /\ lastReg = [u \in RegUrls |-> None]
    /\ expect = [t \in Threads |-> None]
    /\ seen = [t \in Threads |-> {}]

InGet(t) == pc[t] \in {"get_call", "get_locked"}

\* register_store(url, store): url.to_string() is the key, and DashMap::insert
\* takes the write lock of the key's shard.
RegLock(t, u, s) ==
    LET sh == ShardOf(KeyOf(u)) IN
    /\ pc[t] = "idle"
    /\ CanWriteLock(sh)
    /\ shardWriter' = [shardWriter EXCEPT ![sh] = t]
    /\ pc' = [pc EXCEPT ![t] = "reg_locked"]
    /\ argUrl' = [argUrl EXCEPT ![t] = u]
    /\ argStore' = [argStore EXCEPT ![t] = s]
    /\ UNCHANGED <<objectStores, shardReaders, old, ret, lastReg, expect, seen>>

\* DashMap::insert: the first word of the slot is written (the displaced
\* value is read out); a new key is not yet visible.
RegWrite1(t) ==
    LET key == KeyOf(argUrl[t])
        cur == MapGet(objectStores, key) IN
    /\ pc[t] = "reg_locked"
    /\ old' = [old EXCEPT ![t] = cur]
    /\ objectStores' =
         IF cur = None THEN objectStores
         ELSE MapPut(objectStores, key,
                     [data |-> argStore[t], vtable |-> cur[1].vtable])
    /\ pc' = [pc EXCEPT ![t] = "reg_w1"]
    /\ UNCHANGED <<shardWriter, shardReaders, argUrl, argStore, ret, lastReg,
                   expect, seen>>

\* DashMap::insert: the slot holds the new value in full, the lock is
\* released and register_store returns what insert returned.
RegWrite2(t) ==
    LET key == KeyOf(argUrl[t])
        sh == ShardOf(key) IN
    /\ pc[t] = "reg_w1"
    /\ objectStores' = MapPut(objectStores, key, Arc(argStore[t]))
    /\ shardWriter' = [shardWriter EXCEPT ![sh] = IF @ = t THEN 0 ELSE @]
    /\ ret' = [ret EXCEPT ![t] =
                 [ok |-> TRUE,
                  val |-> RegisterReturns(old[t], Arc(argStore[t])),
                  err |-> DeltaGeneric("")]]
    /\ expect' = [expect EXCEPT ![t] = lastReg[argUrl[t]]]
    /\ lastReg' = [lastReg EXCEPT ![argUrl[t]] = Some(argStore[t])]
    /\ seen' = [r \in Threads |->
                  IF r # t /\ InGet(r) /\ argUrl[r] = argUrl[t]
                  THEN seen[r] \cup {Some(argStore[t])} ELSE seen[r]]
    /\ pc' = [pc EXCEPT ![t] = "reg_done"]
    /\ UNCHANGED <<shardReaders, argUrl, argStore, old>>

\* get_store(url): the call; url.to_string() is the key.
GetCall(t, u) ==
    /\ pc[t] = "idle"
    /\ pc' = [pc EXCEPT ![t] = "get_call"]
    /\ argUrl' = [argUrl EXCEPT ![t] = u]
    /\ seen' = [seen EXCEPT ![t] = {lastReg[u]}]
    /\ UNCHANGED <<objectStores, shardWriter, shardReaders, argStore, old, ret,
                   lastReg, expect>>

\* DashMap::get: take the read lock of the key's shard.
GetLock(t) ==
    LET sh == ShardOf(KeyOf(argUrl[t])) IN
    /\ pc[t] = "get_call"
    /\ CanReadLock(sh)
    /\ shardReaders' = [shardReaders EXCEPT ![sh] = @ \cup {t}]
    /\ pc' = [pc EXCEPT ![t] = "get_locked"]
    /\ UNCHANGED <<objectStores, shardWriter, argUrl, argStore, old, ret,
                   lastReg, expect, seen>>

\* DashMap::get finds the entry (or none); .map(|o| Arc::clone(o.value()))
\* .ok_or_else(..) makes the result; the Ref guard is dropped (the read lock
\* is released) and get_store returns.
GetRead(t) ==
    LET sh == ShardOf(KeyOf(argUrl[t])) IN
    /\ pc[t] = "get_locked"
    /\ ret' = [ret EXCEPT ![t] =
                 GetStoreOf(MapGet(objectStores, KeyOf(argUrl[t])), argUrl[t])]
    /\ expect' = [expect EXCEPT ![t] = lastReg[argUrl[t]]]
    /\ shardReaders' = [shardReaders EXCEPT ![sh] = @ \ {t}]
    /\ pc' = [pc EXCEPT ![t] = "get_done"]
    /\ UNCHANGED <<objectStores, shardWriter, argUrl, argStore, old, lastReg,
                   seen>>

\* The caller takes the returned value and is free to call again (the call's
\* locals are gone).
RegReturn(t) ==
    /\ pc[t] \in {"reg_done", "get_done"}
    /\ pc' = [pc EXCEPT ![t] = "idle"]
    /\ argUrl' = [argUrl EXCEPT ![t] = DefaultUrl]
    /\ argStore' = [argStore EXCEPT ![t] = "A"]
    /\ old' = [old EXCEPT ![t] = None]
    /\ ret' = [ret EXCEPT ![t] = NoRet]
    /\ expect' = [expect EXCEPT ![t] = None]
    /\ seen' = [seen EXCEPT ![t] = {}]
    /\ UNCHANGED <<objectStores, shardWriter, shardReaders, lastReg>>

(***************************************************************************)
(* Storage options, paths and the decorators.                              *)
(***************************************************************************)
\* storage_constants::OBJECT_STORE_CONCURRENCY_LIMIT
OBJECT_STORE_CONCURRENCY_LIMIT == "OBJECT_STORE_CONCURRENCY_LIMIT"

\* StorageOptions: a map from option names to strings; a string that is
\* parsed is a sequence of characters.
NoOptions == [k \in {} |-> <<>>]
LimitOption(v) == [k \in {OBJECT_STORE_CONCURRENCY_LIMIT} |-> v]
OptionGet(options, key) ==
    IF key \in DOMAIN options THEN Some(options[key]) ELSE None

DigitChars == <<"0", "1", "2", "3", "4", "5", "6", "7", "8", "9">>
IsDigit(c) == \E i \in 1 .. Len(DigitChars) : DigitChars[i] = c
DigitVal(c) == (CHOOSE i \in 1 .. Len(DigitChars) : DigitChars[i] = c) - 1

StripZeros(d) ==
    LET nz == { i \in 1 .. Len(d) : d[i] # 0 } IN
    IF nz = {} THEN <<>>
    ELSE SubSeq(d, CHOOSE i \in nz : \A j \in nz : i <= j, Len(d))

\* Whether the digits a are a greater number than the digits b (neither has
\* leading zeros).
DigitsGreater(a, b) ==
    IF Len(a) # Len(b) THEN Len(a) > Len(b)
    ELSE \E i \in 1 .. Len(a) :
            a[i] > b[i] /\ \A j \in 1 .. (i - 1) : a[j] = b[j]

\* usize::MAX = 18446744073709551615, as digits.
UsizeMaxDigits == <<1, 8, 4, 4, 6, 7, 4, 4, 0, 7, 3, 7, 0, 9, 5, 5, 1, 6, 1, 5>>

RECURSIVE DigitsValue(_, _)
DigitsValue(d, acc) ==
    IF d = <<>> THEN acc ELSE DigitsValue(Tail(d), acc * 10 + Head(d))

\* str::parse::<usize>().ok(): an optional "+", then one or more decimal
\* digits, no other character, and no overflow of usize.
ParseUsize(v) ==
    LET body == IF v # <<>> /\ Head(v) = "+" THEN Tail(v) ELSE v
        digits == [i \in 1 .. Len(body) |-> DigitVal(body[i])]
    IN  IF body = <<>> \/ \E i \in 1 .. Len(body) : ~IsDigit(body[i])
        THEN None
        ELSE IF DigitsGreater(StripZeros(digits), UsizeMaxDigits) THEN None
        ELSE Some(DigitsValue(digits, 0))

\* object_store::path::Path: the sequence of its (non-empty) parts; the root
\* Path::from("/") has none.
RootPath == <<>>

\* A backend: the base store and the decorators around it, outermost first.
Layer(kind, limit, prefix) == [kind |-> kind, limit |-> limit, prefix |-> prefix]
Backend(kind, id, root) ==
    [layers |-> <<>>, base |-> [kind |-> kind, id |-> id, root |-> root]]
Wrap(layer, store) == [store EXCEPT !.layers = <<layer>> \o @]

\* url_prefix_handler(store, prefix)
url_prefix_handler_always(store, prefix) ==
    Wrap(Layer("PrefixStore", 0, prefix), store)
url_prefix_handler(store, prefix) ==
    IF prefix # RootPath
    THEN Wrap(Layer("PrefixStore", 0, prefix), store)
    ELSE store

\* limit_store_handler(store, options)
limit_store_handler_off_by_one(store, options) ==
    LET v == OptionGet(options, OBJECT_STORE_CONCURRENCY_LIMIT)
        concurrency_limit == IF v = None THEN None ELSE ParseUsize(v[1])
    IN  IF concurrency_limit # None
        THEN Wrap(Layer("LimitStore", concurrency_limit[1] + 1, RootPath), store)
        ELSE store
limit_store_handler(store, options) ==
    LET v == OptionGet(options, OBJECT_STORE_CONCURRENCY_LIMIT)
        concurrency_limit == IF v = None THEN None ELSE ParseUsize(v[1])
    IN  IF concurrency_limit # None
        THEN Wrap(Layer("LimitStore", concurrency_limit[1], RootPath), store)
        ELSE store

(***************************************************************************)
(* The default factory, the factory registry and store_for.                *)
(***************************************************************************)
\* What a call ends with: a value, an error value, or a panic.
NoBackend == Backend("None", 0, RootPath)
NoError == [kind |-> "", msg |-> ""]
OutOk(store, path) ==
    [kind |-> "ok", store |-> store, path |-> path, err |-> NoError]
OutErr(e) ==
    [kind |-> "err", store |-> NoBackend, path |-> RootPath, err |-> e]
OutPanic(msg) ==
    [kind |-> "panic", store |-> NoBackend, path |-> RootPath,
     err |-> [kind |-> "panic", msg |-> msg]]

InvalidTableLocation(url) ==
    [kind |-> "InvalidTableLocation", msg |-> to_string(url)]

\* The printable ASCII characters by their code: 0x20 .. 0x5F and
\* 0x61 .. 0x7E.
Ascii20 == " !\"#$%&'()*+,-./0123456789:;<=>?@ABCDEFGHIJKLMNOPQRSTUVWXYZ[\\]^_"
Ascii61 == "abcdefghijklmnopqrstuvwxyz{|}~"
Chars(s) == [i \in 1 .. Len(s) |-> SubSeq(s, i, i)]
AsciiChar ==
    [b \in (32 .. 95) \cup (97 .. 126) |->
        IF b <= 95 THEN SubSeq(Ascii20, b - 31, b - 31)
        ELSE SubSeq(Ascii61, b - 96, b - 96)]
CodeOf ==
    [c \in { AsciiChar[b] : b \in DOMAIN AsciiChar } |->
        CHOOSE b \in DOMAIN AsciiChar : AsciiChar[b] = c]
HexDigits == Chars("0123456789ABCDEF")
LowerHex == { "a", "b", "c", "d", "e", "f" }
HexVal ==
    [c \in { HexDigits[i] : i \in 1 .. 16 } \cup LowerHex |->
        IF c \in LowerHex THEN CodeOf[c] - 87
        ELSE (CHOOSE i \in 1 .. 16 : HexDigits[i] = c) - 1]
IsHex(c) == c \in DOMAIN HexVal

\* percent_encoding::percent_decode: the bytes of a text, each "%XX" with two
\* hex digits giving the byte XX and every other character its own byte.
RECURSIVE percent_decode(_)
percent_decode(cs) ==
    IF cs = <<>> THEN <<>>
    ELSE IF Head(cs) = "%" /\ Len(cs) >= 3 /\ IsHex(cs[2]) /\ IsHex(cs[3])
    THEN <<16 * HexVal[cs[2]] + HexVal[cs[3]]>>
             \o percent_decode(SubSeq(cs, 4, Len(cs)))
    ELSE <<CodeOf[Head(cs)]>> \o percent_decode(Tail(cs))

\* std::str::from_utf8 on bytes: whether they are well-formed UTF-8.
IsCont(bytes, i, lo, hi) == Len(bytes) >= i /\ bytes[i] >= lo /\ bytes[i] <= hi
RECURSIVE Utf8Valid(_)
Utf8Valid(bytes) ==
    IF bytes = <<>> THEN TRUE
    ELSE LET b == Head(bytes)
             rest(n) == Utf8Valid(SubSeq(bytes, n + 1, Len(bytes))) IN
         IF b < 128 THEN rest(1)
         ELSE IF b >= 194 /\ b <= 223
         THEN IsCont(bytes, 2, 128, 191) /\ rest(2)
         ELSE IF b >= 224 /\ b <= 239
         THEN /\ IsCont(bytes, 2, IF b = 224 THEN 160 ELSE 128,
                        IF b = 237 THEN 159 ELSE 191)
              /\ IsCont(bytes, 3, 128, 191) /\ rest(3)
         ELSE IF b >= 240 /\ b <= 244
         THEN /\ IsCont(bytes, 2, IF b = 240 THEN 144 ELSE 128,
                        IF b = 244 THEN 143 ELSE 191)
              /\ IsCont(bytes, 3, 128, 191) /\ IsCont(bytes, 4, 128, 191)
              /\ rest(4)
         ELSE FALSE

\* A text that was decoded from bytes, as a string of the model: a printable
\* ASCII character stands for itself; "%", the character U+0060 and every
\* byte that is not printable ASCII (a control character, the bytes of a
\* character beyond ASCII) are written "%XX".
RECURSIVE TextOf(_)
TextOf(bytes) ==
    IF bytes = <<>> THEN ""
    ELSE LET b == Head(bytes) IN
         (IF b \in DOMAIN AsciiChar /\ b # 37
          THEN AsciiChar[b]
          ELSE "%" \o HexDigits[(b \div 16) + 1] \o HexDigits[(b % 16) + 1])
             \o TextOf(Tail(bytes))

\* percent_decode(..).decode_utf8() of a text: whether it is UTF-8, and the
\* decoded text.
IsUtf8(seg) == Utf8Valid(percent_decode(Chars(seg)))
PercentDecode(seg) == TextOf(percent_decode(Chars(seg)))

\* str::split(DELIMITER) on bytes: the pieces between the bytes 0x2F.
RECURSIVE SplitBytes(_, _)
SplitBytes(bytes, piece) ==
    IF bytes = <<>> THEN <<piece>>
    ELSE IF Head(bytes) = 47 THEN <<piece>> \o SplitBytes(Tail(bytes), <<>>)
    ELSE SplitBytes(Tail(bytes), Append(piece, Head(bytes)))

\* PathPart::parse: "." and ".." are no parts, and no part holds an ASCII
\* control character.
BadPart(part) ==
    \/ part = <<46>> \/ part = <<46, 46>>
    \/ \E i \in 1 .. Len(part) : part[i] < 32 \/ part[i] = 127

\* Path::from_url_path(url.path()): the path is percent-decoded as a whole
\* and must be UTF-8; then Path::parse: one leading and one trailing
\* delimiter are stripped, and no part may be empty or bad.  The operators
\* before from_url_path are its steps.
StripLeading(bytes) ==
    IF bytes # <<>> /\ Head(bytes) = 47 THEN Tail(bytes) ELSE bytes
StripEnding(bytes) ==
    IF bytes # <<>> /\ bytes[Len(bytes)] = 47
    THEN SubSeq(bytes, 1, Len(bytes) - 1) ELSE bytes
PathOfParts(parts) ==
    IF \E i \in 1 .. Len(parts) : parts[i] = <<>>
    THEN OutErr([kind |-> "ObjectStorePath", msg |-> "EmptySegment"])
    ELSE IF \E i \in 1 .. Len(parts) : BadPart(parts[i])
    THEN OutErr([kind |-> "ObjectStorePath", msg |-> "BadSegment"])
    ELSE OutOk(NoBackend, [i \in 1 .. Len(parts) |-> TextOf(parts[i])])
PathParse(front) ==
    IF front = <<>> THEN OutOk(NoBackend, RootPath)
    ELSE PathOfParts(SplitBytes(StripEnding(front), <<>>))
PathOfBytes(bytes) ==
    IF ~Utf8Valid(bytes)
    THEN OutErr([kind |-> "ObjectStorePath", msg |-> "NonUnicode"])
    ELSE PathParse(StripLeading(bytes))
from_url_path(path) == PathOfBytes(percent_decode(Chars(path)))

\* file_url_segments_to_pathbuf: the bytes "/" and the percent-decoded
\* segment, for each segment (they need not be UTF-8).
RECURSIVE SegmentBytes(_)
SegmentBytes(segments) ==
    IF segments = <<>> THEN <<>>
    ELSE <<47>> \o percent_decode(Chars(Head(segments)))
             \o SegmentBytes(Tail(segments))

\* u8::is_ascii_alphabetic
IsAsciiAlphabetic(b) == (b >= 65 /\ b <= 90) \/ (b >= 97 /\ b <= 122)

\* "A windows drive letter must end with a slash": bytes that end in a
\* letter and ":" or "|" get a "/".
WithDriveSlash(bytes) ==
    IF /\ Len(bytes) > 2
       /\ IsAsciiAlphabetic(bytes[Len(bytes) - 1])
       /\ bytes[Len(bytes)] \in {58, 124}
    THEN Append(bytes, 47) ELSE bytes

\* Url::to_file_path (unix): Err(()) for a url without path segments and for
\* one with a host other than localhost; otherwise the path made of the
\* segments, as a text.
to_file_path(url) ==
    IF path_segments(url) = None \/ url.host \notin {"", "localhost"}
    THEN OutErr([kind |-> "()", msg |-> ""])
    ELSE OutOk(NoBackend, TextOf(WithDriveSlash(SegmentBytes(path_segments(url)[1]))))

VARIABLES
    REGISTRY,       \* factories()'s OnceLock: None, or Some(key -> factory)
    memObjects,     \* the stores constructed so far: id -> the objects in it
    fileSystem,     \* the objects in the local filesystem
    handles,        \* the backends store_for has returned, in order
    written,        \* history: the paths put through each of the handles
    sfCall,         \* the store_for call under way and where it is
    sfLast          \* history: the last store_for call and how it ended

facVars == <<REGISTRY, memObjects, fileSystem, handles, written, sfCall, sfLast>>

\* The local filesystem: the directories there are from the start, each by
\* its components, and the files put through a LocalFileSystem, whose parent
\* directories the put created.
ExistingDirs == { <<>>, <<"tmp">> }
IsFile(path) == path \in fileSystem
IsDir(path) ==
    \/ path \in ExistingDirs
    \/ \E f \in fileSystem :
          Len(f) > Len(path) /\ SubSeq(f, 1, Len(path)) = path

\* The lookup of each component of a path in turn, from the directory cur:
\* an empty component and "." stay, ".." leaves the directory, a name enters
\* the directory of that name or, as the last component, names a file; None
\* at the first component that is not there.
RECURSIVE Resolve(_, _)
Resolve(parts, cur) ==
    IF parts = <<>> THEN Some(cur)
    ELSE LET part == TextOf(Head(parts)) IN
         IF part = "" \/ part = "." THEN Resolve(Tail(parts), cur)
         ELSE IF part = ".."
         THEN Resolve(Tail(parts),
                      IF cur = <<>> THEN cur ELSE SubSeq(cur, 1, Len(cur) - 1))
         ELSE IF IsDir(Append(cur, part))
         THEN Resolve(Tail(parts), Append(cur, part))
         ELSE IF IsFile(Append(cur, part)) /\ Tail(parts) = <<>>
         THEN Some(Append(cur, part))
         ELSE None

\* std::fs::canonicalize of an absolute path: the file or directory its
\* components lead to, by its components; None where one of them does not
\* exist, and for a path that holds the byte 0.
canonicalize(dir) ==
    LET bytes == percent_decode(Chars(dir)) IN
    IF bytes = <<>> \/ Head(bytes) # 47 \/ \E i \in 1 .. Len(bytes) : bytes[i] = 0
    THEN None
    ELSE Resolve(SplitBytes(Tail(bytes), <<>>), <<>>)

\* LocalFileSystem::new_with_prefix: the prefix is canonicalized, which
\* fails for a path that does not exist.
new_with_prefix(dir, id) ==
    LET path == canonicalize(dir) IN
    IF path # None
    THEN OutOk(Backend("LocalFileSystem", id, path[1]), RootPath)
    ELSE OutErr([kind |-> "ObjectStore", msg |-> "UnableToCanonicalize"])

\* The identity of the store a factory call constructs, n stores having been
\* constructed before.
FreshIdShared(n) == 1
FreshId(n) == n + 1

\* DefaultObjectStoreFactory::parse_url_opts(url, options), with the identity
\* of the store it constructs.
parse_url_opts_limit_inside(url, options, id) ==
    CASE url.scheme = "memory" ->
            LET path == from_url_path(UrlPath(url)) IN
            IF path.kind # "ok" THEN OutErr(path.err)
            ELSE OutOk(url_prefix_handler(
                           limit_store_handler(Backend("InMemory", id, RootPath),
                                               options),
                           path.path),
                       path.path)
      [] url.scheme = "file" ->
            LET file_path == to_file_path(url) IN
            IF file_path.kind # "ok"
            THEN OutPanic(UnwrapErrMsg("()"))
            ELSE LET inner == new_with_prefix(file_path.path, id) IN
                 IF inner.kind # "ok" THEN OutErr(inner.err)
                 ELSE OutOk(limit_store_handler(inner.store, options), RootPath)
      [] OTHER -> OutErr(InvalidTableLocation(url))
parse_url_opts(url, options, id) ==
    CASE url.scheme = "memory" ->
            LET path == from_url_path(UrlPath(url)) IN
            IF path.kind # "ok" THEN OutErr(path.err)
            ELSE OutOk(limit_store_handler(
                           url_prefix_handler(Backend("InMemory", id, RootPath),
                                              path.path),
                           options),
                       path.path)
      [] url.scheme = "file" ->
            LET file_path == to_file_path(url) IN
            IF file_path.kind # "ok"
            THEN OutPanic(UnwrapErrMsg("()"))
            ELSE LET inner == new_with_prefix(file_path.path, id) IN
                 IF inner.kind # "ok" THEN OutErr(inner.err)
                 ELSE OutOk(limit_store_handler(inner.store, options), RootPath)
      [] OTHER -> OutErr(InvalidTableLocation(url))

\* Url::parse(&format!("{}://", scheme)): a special scheme other than file
\* needs a host (Err(ParseError::EmptyHost), here None); a file url gets the
\* path "/".  The Url is given by its serialization.
SpecialSchemes == {"http", "https", "ws", "wss", "ftp"}
ParseSchemeUrl(scheme) ==
    IF scheme \in SpecialSchemes
    THEN None
    ELSE Some(to_string(MkUrl(scheme, "", IF scheme = "file" THEN <<"">> ELSE <<>>,
                              None)))

\* Bound: the stores store_for constructs in one run.
MaxStores == 2

\* The registry factories() builds on its first call.
BuiltinFactories ==
    LET m == ParseSchemeUrl("memory")[1]
        f == ParseSchemeUrl("file")[1]
    IN  [k \in {m, f} |-> "default"]

\* factories(): REGISTRY.get_or_init(..).clone()
factories(registry) == IF registry = None THEN BuiltinFactories ELSE registry[1]

\* The urls the default factory is given, and those store_for is called
\* with.
FacUrls ==
    { MkUrl("memory", "h", <<"a">>, None),
      MkUrl("memory", "h", <<"%41", "b", "">>, None),
      MkUrl("memory", "h", <<"">>, None),
      MkUrl("memory", "h", <<"a", "", "b">>, None),
      MkUrl("memory", "h", <<"%FF">>, None),
      MkUrl("memory", "h", <<"%ff">>, None),
      MkUrl("memory", "h", <<"a%20b">>, None),
      MkUrl("memory", "h", <<"a%2Fb">>, None),
      MkUrl("memory", "h", <<"%C3%A9">>, None),
      MkUrl("memory", "h", <<"a%2F..">>, None),
      MkUrl("file", "", <<"tmp">>, None),
      MkUrl("file", "", <<"tmp", "">>, None),
      MkUrl("file", "", <<"">>, None),
      MkUrl("file", "localhost", <<"tmp">>, None),
      MkUrl("file", "", <<"missing">>, None),
      MkUrl("file", "", <<"missing%2F..">>, None),
      MkUrl("file", "", <<"tmp%2F..%2Ftmp">>, None),
      MkUrl("file", "", <<"tmp", "c:">>, None),
      MkUrl("file", "", <<"tmp", "x">>, None),
      MkUrl("file", "remote", <<"tmp">>, None),
      CannotBeABase("memory", "a"),
      NoAuthority(MkUrl("memory", "", <<"a">>, None)),
      MkUrl("s3", "bucket", <<"t">>, None),
      MkUrl("http", "example.com", <<"t">>, None) }
StoreForOptions == { NoOptions }
StoreForUrls ==
    { MkUrl("memory", "h", <<"a">>, None),
      MkUrl("file", "", <<"tmp", "">>, None),
      MkUrl("file", "", <<"tmp", "x">>, None),
      MkUrl("file", "", <<"missing%2F..">>, None),
      MkUrl("file", "remote", <<"tmp">>, None),
      MkUrl("s3", "bucket", <<"t">>, None),
      MkUrl("http", "example.com", <<"t">>, None) }

FacOptions == { NoOptions, LimitOption(<<"2">>) }

\* The schemes external code registers factories for.
ExtSchemes == {"s3"}

NoCall ==
    [api |-> "", url |-> DefaultUrl, options |-> NoOptions,
     out |-> OutErr(NoError), made |-> OutErr(NoError), found |-> FALSE,
     factoryCalls |-> 0, storesBefore |-> 0]

\* A store_for call under way: where it is ("scheme", "factories", "get",
\* "parse_url_opts"), its arguments, the key it made of the scheme, the
\* factory its lookup found and the stores there were when it was called.
NoStoreFor ==
    [pc |-> "idle", url |-> DefaultUrl, options |-> NoOptions, scheme |-> "",
     factory |-> "", storesBefore |-> 0]

InitFactoryVars ==
    /\ REGISTRY = None
    /\ memObjects = <<>>
    /\ fileSystem = {}
    /\ handles = <<>>
    /\ written = <<>>
    /\ sfCall = NoStoreFor
    /\ sfLast = NoCall

\* The stores constructed so far, and the one with the identity id if it is
\* new.
Constructed(id) ==
    [i \in 1 .. (IF id > Len(memObjects) THEN id ELSE Len(memObjects)) |->
        IF i <= Len(memObjects) THEN memObjects[i] ELSE {}]

\* store_for(url, storage_options) is called.
StoreForEnter(url, options) ==
    /\ sfCall.pc = "idle"
    /\ Len(handles) < MaxStores
    /\ sfCall' = [pc |-> "scheme", url |-> url, options |-> options,
                  scheme |-> "", factory |-> "", storesBefore |-> Len(memObjects)]
    /\ UNCHANGED <<REGISTRY, memObjects, fileSystem, handles, written, sfLast>>

\* Url::parse(&format!("{}://", url.scheme())).unwrap(): the key, or the
\* panic of the unwrap, which ends the call.
StoreForScheme ==
    LET scheme == ParseSchemeUrl(sfCall.url.scheme) IN
    /\ sfCall.pc = "scheme"
    /\ IF scheme = None
       THEN /\ sfCall' = NoStoreFor
            /\ sfLast' = [api |-> "store_for", url |-> sfCall.url,
                          options |-> sfCall.options,
                          out |-> OutPanic(UnwrapErrMsg("EmptyHost")),
                          made |-> OutErr(NoError), found |-> FALSE,
                          factoryCalls |-> 0,
                          storesBefore |-> sfCall.storesBefore]
       ELSE /\ sfCall' = [sfCall EXCEPT !.pc = "factories", !.scheme = scheme[1]]
            /\ UNCHANGED sfLast
    /\ UNCHANGED <<REGISTRY, memObjects, fileSystem, handles, written>>

\* factories(): the registry is built if this is the first call.
StoreForFactories ==
    /\ sfCall.pc = "factories"
    /\ REGISTRY' = Some(factories(REGISTRY))
    /\ sfCall' = [sfCall EXCEPT !.pc = "get"]
    /\ UNCHANGED <<memObjects, fileSystem, handles, written, sfLast>>

\* .get(&scheme): the entry of the key as the registry has it now, held
\* (with the read lock of its shard) until the factory has returned; with no
\* entry the call ends with InvalidTableLocation.
StoreForLookup ==
    LET registry == REGISTRY[1]
        found == sfCall.scheme \in DOMAIN registry IN
    /\ sfCall.pc = "get"
    /\ IF found
       THEN /\ sfCall' = [sfCall EXCEPT !.pc = "parse_url_opts",
                                        !.factory = registry[sfCall.scheme]]
            /\ UNCHANGED sfLast
       ELSE /\ sfCall' = NoStoreFor
            /\ sfLast' = [api |-> "store_for", url |-> sfCall.url,
                          options |-> sfCall.options,
                          out |-> OutErr(InvalidTableLocation(sfCall.url)),
                          made |-> OutErr(NoError), found |-> FALSE,
                          factoryCalls |-> 0,
                          storesBefore |-> sfCall.storesBefore]
    /\ UNCHANGED <<REGISTRY, memObjects, fileSystem, handles, written>>

\* factory.parse_url_opts(url, storage_options)? and the return of
\* store_for, ext being what an externally registered factory answers.
StoreFor(ext) ==
    LET id == FreshId(Len(memObjects))
        made == IF sfCall.factory = "default"
                THEN parse_url_opts(sfCall.url, sfCall.options, id)
                ELSE ext
        out == IF made.kind = "ok" THEN OutOk(made.store, RootPath) ELSE made
    IN  /\ sfCall.pc = "parse_url_opts"
        /\ sfCall' = NoStoreFor
        /\ sfLast' = [api |-> "store_for", url |-> sfCall.url,
                      options |-> sfCall.options,
                      out |-> out, made |-> made, found |-> TRUE,
                      factoryCalls |-> 1,
                      storesBefore |-> sfCall.storesBefore]
        /\ IF out.kind = "ok"
           THEN /\ handles' = Append(handles, out.store)
                /\ written' = Append(written, {})
                /\ memObjects' = Constructed(id)
           ELSE UNCHANGED <<handles, written, memObjects>>
        /\ UNCHANGED <<REGISTRY, fileSystem>>

\* DefaultObjectStoreFactory::parse_url_opts(url, options), called on the
\* factory itself.
ParseUrlOptsCall(url, options) ==
    LET id == FreshId(Len(memObjects))
        out == parse_url_opts(url, options, id)
    IN  /\ Len(handles) < MaxStores
        /\ sfLast' = [api |-> "parse_url_opts", url |-> url, options |-> options,
                      out |-> out, made |-> out, found |-> TRUE,
                      factoryCalls |-> 1, storesBefore |-> Len(memObjects)]
        /\ IF out.kind = "ok"
           THEN /\ handles' = Append(handles, out.store)
                /\ written' = Append(written, {})
                /\ memObjects' = Constructed(id)
           ELSE UNCHANGED <<handles, written, memObjects>>
        /\ UNCHANGED <<REGISTRY, fileSystem, sfCall>>

\* External code registers a factory: factories().insert(Url::parse(
\* "<scheme>://").unwrap(), factory).  The insert takes the write lock of
\* the key's shard, so it waits while a store_for holds that key's entry.
RegisterFactory(scheme) ==
    LET key == ParseSchemeUrl(scheme) IN
    /\ key # None
    /\ ~(sfCall.pc = "parse_url_opts" /\ sfCall.scheme = key[1])
    /\ REGISTRY' = Some([k \in DOMAIN factories(REGISTRY) \cup {key[1]} |->
                           IF k = key[1] THEN "external"
                           ELSE factories(REGISTRY)[k]])
    /\ UNCHANGED <<memObjects, fileSystem, handles, written, sfCall, sfLast>>

\* The paths objects are put at.
PutPaths == { <<"x">> }

\* The location in the base store that a path given to the backend names:
\* each PrefixStore layer puts its prefix in front.
RECURSIVE FullPath(_, _)
FullPath(layers, location) ==
    IF layers = <<>> THEN location
    ELSE FullPath(Tail(layers),
                  IF Head(layers).kind = "PrefixStore"
                  THEN Head(layers).prefix \o location ELSE location)

\* Whether a get of the location through the backend finds an object.
Holds(store, location) ==
    LET full == FullPath(store.layers, location) IN
    IF store.base.kind = "LocalFileSystem"
    THEN (store.base.root \o full) \in fileSystem
    ELSE full \in memObjects[store.base.id]

\* Whether the local filesystem takes a file at the path: no directory is
\* there, and none of the directories above it is a file.
CanCreate(path) ==
    /\ ~IsDir(path)
    /\ \A k \in 0 .. (Len(path) - 1) : ~IsFile(SubSeq(path, 1, k))

\* store.put(location, ..) through the i-th handle; a put the local
\* filesystem does not take is an error and leaves it as it is.
PutThrough(i, location) ==
    LET store == handles[i]
        full == FullPath(store.layers, location) IN
    /\ i \in 1 .. Len(handles)
    /\ IF store.base.kind = "LocalFileSystem"
       THEN /\ IF CanCreate(store.base.root \o full)
               THEN /\ fileSystem' = fileSystem \cup {store.base.root \o full}
                    /\ written' = [written EXCEPT ![i] = @ \cup {location}]
               ELSE UNCHANGED <<fileSystem, written>>
            /\ UNCHANGED memObjects
       ELSE /\ memObjects' = [memObjects EXCEPT ![store.base.id] = @ \cup {full}]
            /\ written' = [written EXCEPT ![i] = @ \cup {location}]
            /\ UNCHANGED fileSystem
    /\ UNCHANGED <<REGISTRY, handles, sfCall, sfLast>>

(***************************************************************************)
(* limit_store_handler and the store it returns under concurrent callers.  *)
(***************************************************************************)
VARIABLES
    limOptions,     \* the StorageOptions given to limit_store_handler
    limStore,       \* None, or Some(the backend limit_store_handler returned)
    permits,        \* the free permits of the LimitStore's semaphore
    opPc            \* caller -> "idle", "waiting" (for a permit) or "inflight"

limVars == <<limOptions, limStore, permits, opPc>>

\* Bounds: the concurrent callers of the store, and the length of the
\* option's value.
NumCallers == 3
MaxOptLen == 2

Callers == 1 .. NumCallers

\* The characters of the option values tried.
OptChars == {"0", "1", "2", "+", "-", "x"}
OptValues == UNION { [1 .. n -> OptChars] : n \in 0 .. MaxOptLen }

\* The option maps limit_store_handler is given: the key absent, or present
\* with any of the values.
LimOptionMaps == {NoOptions} \cup { LimitOption(v) : v \in OptValues }

IsLimited(store) == store.layers # <<>> /\ Head(store.layers).kind = "LimitStore"
LimitOf(store) == Head(store.layers).limit
InFlight == { c \in Callers : opPc[c] = "inflight" }

InitLimitVars ==
    /\ limOptions = NoOptions
    /\ limStore = None
    /\ permits = 0
    /\ opPc = [c \in Callers |-> "idle"]

\* limit_store_handler(InMemory::new(), options); LimitStore::new makes a
\* semaphore of max_requests permits.
LimitBuild ==
    LET store == limit_store_handler(Backend("InMemory", 1, RootPath), limOptions) IN
    /\ limStore = None
    /\ limStore' = Some(store)
    /\ permits' = IF IsLimited(store) THEN LimitOf(store) ELSE 0
    /\ UNCHANGED <<limOptions, opPc>>

\* A caller calls an operation of the returned store.
OpCall(c) ==
    /\ limStore # None
    /\ opPc[c] = "idle"
    /\ opPc' = [opPc EXCEPT ![c] = "waiting"]
    /\ UNCHANGED <<limOptions, limStore, permits>>

\* The operation is forwarded to the inner store: a LimitStore first takes a
\* permit of its semaphore, and waits while there is none.
OpAdmit(c) ==
    /\ limStore # None
    /\ opPc[c] = "waiting"
    /\ IF IsLimited(limStore[1])
       THEN permits > 0 /\ permits' = permits - 1
       ELSE UNCHANGED permits
    /\ opPc' = [opPc EXCEPT ![c] = "inflight"]
    /\ UNCHANGED <<limOptions, limStore>>

\* The inner store's operation completes; the permit is dropped.
OpComplete(c) ==
    /\ limStore # None
    /\ opPc[c] = "inflight"
    /\ permits' = IF IsLimited(limStore[1]) THEN permits + 1 ELSE permits
    /\ opPc' = [opPc EXCEPT ![c] = "idle"]
    /\ UNCHANGED <<limOptions, limStore>>

(***************************************************************************)
(* Tokio runtimes, as io_rt builds them, and their handles.                *)
(***************************************************************************)
\* RuntimeConfig.
RuntimeConfig(multi_threaded, worker_threads, thread_name, enable_io, enable_time) ==
    [multi_threaded |-> multi_threaded, worker_threads |-> worker_threads,
     thread_name |-> thread_name, enable_io |-> enable_io,
     enable_time |-> enable_time]

\* The configurations callers come with.
RtConfigs ==
    { RuntimeConfig(TRUE, 2, Some("io"), TRUE, TRUE),
      RuntimeConfig(FALSE, 1, None, FALSE, TRUE),
      RuntimeConfig(TRUE, 1, None, TRUE, FALSE),
      RuntimeConfig(TRUE, 0, None, FALSE, FALSE) }

\* The cores of the machine (the workers of Runtime::new()).
NumCpus == 4

\* A tokio runtime: how it was built, and which build of the process it is.
Runtime(id, kind, workers, name, drivers) ==
    [id |-> id, kind |-> kind, workers |-> workers, name |-> name,
     drivers |-> drivers]

\* The name tokio's Builder gives the worker threads when none is set
\* (Runtime::new()), as of the tokio release the crate builds with.
DefaultThreadName == "tokio-rt-worker"

\* The closure io_rt gives to get_or_init, up to .build() (unix): the
\* runtime the builder describes, or None where the builder panics
\* (worker_threads(0), whatever the flavor).  The current-thread flavor has
\* one worker: worker_threads has no effect on it.
BuilderOf(config, id) ==
    IF config = None
    THEN Some(Runtime(id, "multi_thread", NumCpus, DefaultThreadName,
                      {"io", "time"}))
    ELSE LET c == config[1]
             kind == IF c.multi_threaded THEN "multi_thread" ELSE "current_thread"
             drivers == IF c.enable_io /\ c.enable_time THEN {"io", "time"}
                        ELSE IF ~c.enable_io /\ c.enable_time THEN {"time"}
                        ELSE IF c.enable_io /\ ~c.enable_time THEN {"io"}
                        ELSE {}
             name == IF c.thread_name = None THEN "IO-runtime"
                     ELSE c.thread_name[1]
         IN  IF c.worker_threads = 0 THEN None
             ELSE Some(Runtime(id, kind,
                               IF c.multi_threaded THEN c.worker_threads ELSE 1,
                               name, drivers))

\* Runtime::handle(): a handle names its runtime.
Handle(rt) == [runtime |-> rt]

\* A handle to a runtime of the caller's own (IORuntime::RT).
OwnRuntime == Runtime(0, "current_thread", 1, "main", {"time"})
NoHandle == Handle(Runtime(0, "", 0, "", {}))

\* Whether the tasks spawned on a runtime through its handle are run: the
\* workers of a multi-thread runtime run them; a current-thread runtime runs
\* tasks only inside block_on, which nothing calls on the runtime io_rt
\* keeps.
DrivesTasks(rt) == rt.kind = "multi_thread"

(***************************************************************************)
(* DeltaIOStorageBackend: a store whose operations run as tasks spawned on *)
(* the runtime of rt_handle.                                               *)
(***************************************************************************)
\* The locations and payloads of the callers.
IoPaths == { <<"p">>, <<"d", "q">> }
IoData == { <<1>>, <<2, 3>> }
IoRanges == { <<1, 2>> }
IoPrefixes == { None, Some(<<"d">>) }

\* The order of the paths (list_with_offset).
PathRank(path) == IF path = <<"d", "q">> THEN 1 ELSE 2

\* A call of an ObjectStore method: the method and its arguments (those the
\* method does not take are left at a default).
MkCall(op, a, b, bytes, opt, range, prefix) ==
    [op |-> op, a |-> a, b |-> b, bytes |-> bytes, opt |-> opt,
     range |-> range, prefix |-> prefix]
NoPath == <<>>
Call1(op, a) == MkCall(op, a, NoPath, <<>>, "", <<0, 0>>, None)

\* The calls of the methods that are spawned, of the listing methods, and
\* the calls other holders of the inner store make on it.
SpawnedCalls ==
    { MkCall("put", <<"p">>, NoPath, d, "", <<0, 0>>, None) : d \in IoData }
    \cup { MkCall("put", <<"d", "q">>, NoPath, <<1>>, "", <<0, 0>>, None) }
    \cup { Call1(op, a) : op \in {"get", "delete"}, a \in IoPaths }
    \cup { Call1(op, <<"p">>) : op \in {"head", "put_multipart"} }
    \cup { MkCall("put_opts", <<"p">>, NoPath, <<1>>, "Create", <<0, 0>>, None),
            MkCall("get_opts", <<"p">>, NoPath, <<>>, "head", <<0, 0>>, None),
            MkCall("put_multipart_opts", <<"p">>, NoPath, <<>>, "tags", <<0, 0>>, None) }
    \cup { MkCall("get_range", <<"p">>, NoPath, <<>>, "", r, None) : r \in IoRanges }
    \cup { MkCall(op, <<"p">>, <<"d", "q">>, <<>>, "", <<0, 0>>, None) :
              op \in {"copy", "copy_if_not_exists", "rename_if_not_exists"} }
ListingCalls ==
    { MkCall(op, NoPath, NoPath, <<>>, "", <<0, 0>>, pre) :
        op \in {"list", "list_with_delimiter"}, pre \in IoPrefixes }
    \cup { MkCall("list_with_offset", NoPath, b, <<>>, "", <<0, 0>>, None) :
             b \in IoPaths }
AllCalls == SpawnedCalls \cup ListingCalls
DirectCalls ==
    { MkCall("put", <<"p">>, NoPath, d, "", <<0, 0>>, None) : d \in IoData }
    \cup { MkCall("put", <<"d", "q">>, NoPath, <<1>>, "", <<0, 0>>, None) }
    \cup { Call1("delete", a) : a \in IoPaths }

\* ObjectStoreResult<O>: the value of an operation, or its error.
Res(kind, err, data, size, paths) ==
    [kind |-> kind, err |-> err, data |-> data, size |-> size, paths |-> paths]
ResOk(data, size, paths) == Res("ok", "", data, size, paths)
ResErr(err) == Res("err", err, <<>>, 0, {})
NoRes == Res("", "", <<>>, 0, {})

\* The objects of the store under a prefix (all of them for None).
Listed(st, prefix) ==
    { q \in IoPaths :
        /\ st[q] # None
        /\ prefix # None =>
              /\ Len(q) > Len(prefix[1])
              /\ SubSeq(q, 1, Len(prefix[1])) = prefix[1] }

StPut(st, a, bytes) == [st EXCEPT ![a] = Some(bytes)]
StDel(st, a) == [st EXCEPT ![a] = None]

\* The inner store: what the method of the call returns on the contents st,
\* and the contents it leaves (an in-memory store).
InnerExec(call, st) ==
    LET a == call.a
        b == call.b
        same(r) == [res |-> r, st |-> st]
    IN  CASE call.op = "put" ->
                [res |-> ResOk(<<>>, 0, {}), st |-> StPut(st, a, call.bytes)]
          [] call.op = "put_opts" ->
                IF call.opt = "Create" /\ st[a] # None
                THEN same(ResErr("AlreadyExists"))
                ELSE [res |-> ResOk(<<>>, 0, {}), st |-> StPut(st, a, call.bytes)]
          [] call.op = "get" ->
                IF st[a] = None THEN same(ResErr("NotFound"))
                ELSE same(ResOk(st[a][1], Len(st[a][1]), {}))
          [] call.op = "get_opts" ->
                IF st[a] = None THEN same(ResErr("NotFound"))
                ELSE IF call.opt = "head" THEN same(ResOk(<<>>, Len(st[a][1]), {}))
                ELSE same(ResOk(st[a][1], Len(st[a][1]), {}))
          [] call.op = "get_range" ->
                IF st[a] = None THEN same(ResErr("NotFound"))
                ELSE IF call.range[2] > Len(st[a][1]) THEN same(ResErr("OutOfRange"))
                ELSE same(ResOk(SubSeq(st[a][1], call.range[1] + 1, call.range[2]),
                                call.range[2] - call.range[1], {}))
          [] call.op = "head" ->
                IF st[a] = None THEN same(ResErr("NotFound"))
                ELSE same(ResOk(<<>>, Len(st[a][1]), {}))
          [] call.op = "delete" ->
                [res |-> ResOk(<<>>, 0, {}), st |-> StDel(st, a)]
          [] call.op = "copy" ->
                IF st[a] = None THEN same(ResErr("NotFound"))
                ELSE [res |-> ResOk(<<>>, 0, {}), st |-> StPut(st, b, st[a][1])]
          [] call.op = "copy_if_not_exists" ->
                IF st[b] # None THEN same(ResErr("AlreadyExists"))
                ELSE IF st[a] = None THEN same(ResErr("NotFound"))
                ELSE [res |-> ResOk(<<>>, 0, {}), st |-> StPut(st, b, st[a][1])]
          [] call.op = "rename_if_not_exists" ->
                IF st[b] # None THEN same(ResErr("AlreadyExists"))
                ELSE IF st[a] = None THEN same(ResErr("NotFound"))
                ELSE [res |-> ResOk(<<>>, 0, {}),
                      st |-> StDel(StPut(st, b, st[a][1]), a)]
          [] call.op \in {"put_multipart", "put_multipart_opts"} ->
                same(ResOk(<<>>, 0, {a}))
          [] call.op \in {"list", "list_with_delimiter"} ->
                same(ResOk(<<>>, 0, Listed(st, call.prefix)))
          [] call.op = "list_with_offset" ->
                same(ResOk(<<>>, 0,
                           { q \in Listed(st, call.prefix) :
                               PathRank(q) > PathRank(b) }))

\* The closure a method of DeltaIOStorageBackend hands to spawn_io_rt or
\* spawn_io_rt_from_to: the method of the inner store it calls.
InnerMethodMixedUp(op) == IF op = "copy_if_not_exists" THEN "copy" ELSE op
InnerMethod(op) == op

\* spawn_io_rt(f, store, path): the task owns a clone of the path.
spawn_io_rt(call) == [call EXCEPT !.op = InnerMethod(call.op)]

\* spawn_io_rt_from_to(f, store, from, to): the task owns clones of both.
spawn_io_rt_from_to(call) ==
    [call EXCEPT !.op = InnerMethod(call.op), !.a = call.a, !.b = call.b]

TwoPathOps == {"copy", "copy_if_not_exists", "rename_if_not_exists"}
ListingOps == {"list", "list_with_offset", "list_with_delimiter"}

\* Where a method of DeltaIOStorageBackend has the inner store's method
\* called: in a task spawned on rt_handle, or by the caller itself.
DispatchSpawnsAll(op) == "io_rt"
Dispatch(op) == IF op \in ListingOps THEN "caller" ELSE "io_rt"

\* What the future of a spawned task gives the caller (unwrap_or_else on the
\* JoinHandle): the task's own result; a panic of the task is resumed in the
\* caller; any other join error becomes ObjectStoreError::JoinError.
JoinError(source) == "JoinError: " \o source
JoinOutcomeSwallowsPanic(task) ==
    CASE task.state = "finished" -> [kind |-> "returned", res |-> task.res]
      [] task.state \in {"panicked", "cancelled"} ->
            [kind |-> "returned", res |-> ResErr(JoinError("task failed"))]
JoinOutcome(task) ==
    CASE task.state = "finished" -> [kind |-> "returned", res |-> task.res]
      [] task.state = "panicked" -> [kind |-> "panicked", res |-> NoRes]
      [] task.state = "cancelled" ->
            [kind |-> "returned", res |-> ResErr(JoinError("task was cancelled"))]

VARIABLES
    rt_handle,      \* the Handle of the DeltaIOStorageBackend
    inner,          \* the contents of the inner store: path -> Option<bytes>
    ioPc,           \* caller -> "idle", "awaiting", "listing", "done",
                    \*   "panicked" or "abandoned"
    ioCall,         \* slot -> the call made on the DeltaIOStorageBackend
    ioRet,          \* caller -> the result the call returned
    task,           \* slot -> the task the call spawned on the IO runtime
    ioExpect,       \* history: slot -> what the inner store's own method,
                    \*   called when the task ran, returns and whether it
                    \*   leaves the contents the task left
    ranOn           \* history: slot -> the contexts ("caller", "io_rt") the
                    \*   call has had the inner store's method run on

ioVars == <<rt_handle, inner, ioPc, ioCall, ioRet, task, ioExpect, ranOn>>

\* Bound: the concurrent callers of the DeltaIOStorageBackend.
NumIoCallers == 1
IoCallers == 1 .. NumIoCallers
\* Bound: the tasks of abandoned calls that are still to end while their
\* callers have gone on.
MaxDetached == 1
DetachedSlots == (NumIoCallers + 1) .. (NumIoCallers + MaxDetached)
\* A task is the task of a caller's present call, or detached.
TaskSlots == IoCallers \cup DetachedSlots

\* The runtimes behind rt_handle: that of IORuntime::default() and that of
\* a configuration with multi_threaded = false.
IoRuntimes ==
    { BuilderOf(None, 1)[1],
      BuilderOf(Some(RuntimeConfig(FALSE, 1, None, FALSE, TRUE)), 1)[1] }

NoIoCall == Call1("", NoPath)
NoTask == [state |-> "none", closure |-> NoIoCall, res |-> NoRes]
NoExpect == [res |-> NoRes, effect |-> TRUE]
\* The states of a task that has not ended: not yet polled, and inside the
\* inner store's method.
Pending == {"spawned", "running"}

InitIoVars ==
    /\ rt_handle = Handle(BuilderOf(None, 1)[1])
    /\ inner = [q \in IoPaths |-> None]
    /\ ioPc = [c \in IoCallers |-> "idle"]
    /\ ioCall = [s \in TaskSlots |-> NoIoCall]
    /\ ioRet = [c \in IoCallers |-> NoRes]
    /\ task = [s \in TaskSlots |-> NoTask]
    /\ ioExpect = [s \in TaskSlots |-> NoExpect]
    /\ ranOn = [s \in TaskSlots |-> {}]

\* A method other than the listing ones: the closure is spawned on rt_handle
\* and the caller awaits its JoinHandle.
IoSpawn(c, call) ==
    /\ ioPc[c] = "idle"
    /\ Dispatch(call.op) = "io_rt"
    /\ ioPc' = [ioPc EXCEPT ![c] = "awaiting"]
    /\ ioCall' = [ioCall EXCEPT ![c] = call]
    /\ task' = [task EXCEPT ![c] =
                  [state |-> "spawned",
                   closure |-> IF call.op \in TwoPathOps
                               THEN spawn_io_rt_from_to(call)
                               ELSE spawn_io_rt(call),
                   res |-> NoRes]]
    /\ UNCHANGED <<rt_handle, inner, ioRet, ioExpect, ranOn>>

\* The runtime polls the task: the closure calls the inner store's method,
\* whose future the task then awaits.
TaskStart(s) ==
    /\ task[s].state = "spawned"
    /\ DrivesTasks(rt_handle.runtime)
    /\ task' = [task EXCEPT ![s].state = "running"]
    /\ ranOn' = [ranOn EXCEPT ![s] = @ \cup {"io_rt"}]
    /\ UNCHANGED <<rt_handle, inner, ioPc, ioCall, ioRet, ioExpect>>

\* The inner store's method completes in the task: it has its effect on the
\* store and the task ends with its result.
TaskRun(s) ==
    LET did == InnerExec(task[s].closure, inner)
        direct == InnerExec(ioCall[s], inner) IN
    /\ task[s].state = "running"
    /\ DrivesTasks(rt_handle.runtime)
    /\ inner' = did.st
    /\ task' = [task EXCEPT ![s].state = "finished", ![s].res = did.res]
    /\ ioExpect' = [ioExpect EXCEPT ![s] =
                      [res |-> direct.res, effect |-> did.st = direct.st]]
    /\ UNCHANGED <<rt_handle, ioPc, ioCall, ioRet, ranOn>>

\* The inner store's method panics in the task, where it was called.
TaskPanic(s) ==
    /\ task[s].state \in Pending
    /\ DrivesTasks(rt_handle.runtime)
    /\ task' = [task EXCEPT ![s].state = "panicked"]
    /\ ranOn' = [ranOn EXCEPT ![s] = @ \cup {"io_rt"}]
    /\ UNCHANGED <<rt_handle, inner, ioPc, ioCall, ioRet, ioExpect>>

\* The task is cancelled before it ran or while it awaits the inner store's
\* method (it is aborted, or the runtime shuts down).
TaskCancel(s) ==
    /\ task[s].state \in Pending
    /\ task' = [task EXCEPT ![s].state = "cancelled"]
    /\ UNCHANGED <<rt_handle, inner, ioPc, ioCall, ioRet, ioExpect, ranOn>>

\* The caller's await of the JoinHandle completes.
IoJoin(c) ==
    LET got == JoinOutcome(task[c]) IN
    /\ ioPc[c] = "awaiting"
    /\ task[c].state \in {"finished", "panicked", "cancelled"}
    /\ ioPc' = [ioPc EXCEPT ![c] =
                  IF got.kind = "panicked" THEN "panicked" ELSE "done"]
    /\ ioRet' = [ioRet EXCEPT ![c] = got.res]
    /\ UNCHANGED <<rt_handle, inner, ioCall, task, ioExpect, ranOn>>

\* Dropping a JoinHandle detaches its task: the task is left as it is.
AfterDrop(t) == t

\* The caller stops awaiting (it is cancelled, or drops the future of the
\* call and with it the JoinHandle, or the future or stream of a listing);
\* it gets no result.
IoAbandon(c) ==
    /\ ioPc[c] \in {"awaiting", "listing"}
    /\ ioPc' = [ioPc EXCEPT ![c] = "abandoned"]
    /\ task' = [task EXCEPT ![c] = AfterDrop(@)]
    /\ UNCHANGED <<rt_handle, inner, ioCall, ioRet, ioExpect, ranOn>>

\* A listing method: the caller itself calls the inner store's method.
\* list and list_with_offset return the inner store's stream, which the
\* caller polls afterwards; list_with_delimiter awaits the inner store's
\* future.
IoList(c, call) ==
    /\ ioPc[c] = "idle"
    /\ Dispatch(call.op) = "caller"
    /\ ioPc' = [ioPc EXCEPT ![c] = "listing"]
    /\ ioCall' = [ioCall EXCEPT ![c] = call]
    /\ ranOn' = [ranOn EXCEPT ![c] = @ \cup {"caller"}]
    /\ UNCHANGED <<rt_handle, inner, ioRet, task, ioExpect>>

\* The inner store's listing completes, polled by the caller: it gives what
\* the store holds then.
IoListed(c) ==
    LET did == InnerExec(ioCall[c], inner) IN
    /\ ioPc[c] = "listing"
    /\ ioPc' = [ioPc EXCEPT ![c] = "done"]
    /\ ioRet' = [ioRet EXCEPT ![c] = did.res]
    /\ inner' = did.st
    /\ UNCHANGED <<rt_handle, ioCall, task, ioExpect, ranOn>>

\* The call is over (its result is taken, the panic has unwound, or the
\* call was abandoned) and the caller goes on.  The task of an abandoned
\* call that has not ended stays on the runtime, detached.
IoReturn(c) ==
    LET detach == ioPc[c] = "abandoned" /\ task[c].state \in Pending
        free == { s \in DetachedSlots : task[s].state \notin Pending }
        to == CHOOSE s \in free : \A r \in free : s <= r
    IN  /\ ioPc[c] \in {"done", "panicked", "abandoned"}
        /\ detach => free # {}
        /\ ioPc' = [ioPc EXCEPT ![c] = "idle"]
        /\ ioRet' = [ioRet EXCEPT ![c] = NoRes]
        /\ IF detach
           THEN /\ task' = [task EXCEPT ![to] = task[c], ![c] = NoTask]
                /\ ioCall' = [ioCall EXCEPT ![to] = ioCall[c], ![c] = NoIoCall]
                /\ ioExpect' = [ioExpect EXCEPT ![to] = ioExpect[c], ![c] = NoExpect]
                /\ ranOn' = [ranOn EXCEPT ![to] = ranOn[c], ![c] = {}]
           ELSE /\ task' = [task EXCEPT ![c] = NoTask]
                /\ ioCall' = [ioCall EXCEPT ![c] = NoIoCall]
                /\ ioExpect' = [ioExpect EXCEPT ![c] = NoExpect]
                /\ ranOn' = [ranOn EXCEPT ![c] = {}]
        /\ UNCHANGED <<rt_handle, inner>>

\* Another holder of the inner store (it is shared) calls a method on it.
DirectCall(call) ==
    /\ inner' = InnerExec(call, inner).st
    /\ inner' # inner
    /\ UNCHANGED <<rt_handle, ioPc, ioCall, ioRet, task, ioExpect, ranOn>>

(***************************************************************************)
(* io_rt and IORuntime: the runtime the IO tasks are spawned on.            *)
(***************************************************************************)
VARIABLES
    IO_RT,          \* the OnceLock<Runtime> of io_rt: None, or Some(runtime)
    onceRunner,     \* the thread running the OnceLock's initializer, or 0
    rtPc,           \* thread -> "idle", "get_or_init", "init", "done", "panicked"
    rtApi,          \* thread -> "default", "config" or "rt": what it called
    rtArg,          \* thread -> the Option<&RuntimeConfig> io_rt was given
    rtRet,          \* thread -> the Handle its call returned
    rtBuilt         \* history: the runtimes built in the process, in order

rtVars == <<IO_RT, onceRunner, rtPc, rtApi, rtArg, rtRet, rtBuilt>>

\* Bound: the threads calling IORuntime::default() and get_handle.
NumRtThreads == 2
RtThreads == 1 .. NumRtThreads

InitRtVars ==
    /\ IO_RT = None
    /\ onceRunner = 0
    /\ rtPc = [t \in RtThreads |-> "idle"]
    /\ rtApi = [t \in RtThreads |-> ""]
    /\ rtArg = [t \in RtThreads |-> None]
    /\ rtRet = [t \in RtThreads |-> NoHandle]
    /\ rtBuilt = <<>>

\* OnceLock::get_or_init lets one thread at a time run an initializer.
MayInitializeUnsync(runner) == TRUE
MayInitialize(runner) == runner = 0

\* IORuntime::default(): io_rt(None).
DefaultCall(t) ==
    /\ rtPc[t] = "idle"
    /\ rtPc' = [rtPc EXCEPT ![t] = "get_or_init"]
    /\ rtApi' = [rtApi EXCEPT ![t] = "default"]
    /\ rtArg' = [rtArg EXCEPT ![t] = None]
    /\ UNCHANGED <<IO_RT, onceRunner, rtRet, rtBuilt>>

\* IORuntime::Config(config).get_handle(): io_rt(Some(config)).
GetHandleConfig(t, config) ==
    /\ rtPc[t] = "idle"
    /\ rtPc' = [rtPc EXCEPT ![t] = "get_or_init"]
    /\ rtApi' = [rtApi EXCEPT ![t] = "config"]
    /\ rtArg' = [rtArg EXCEPT ![t] = Some(config)]
    /\ UNCHANGED <<IO_RT, onceRunner, rtRet, rtBuilt>>

\* IORuntime::RT(handle).get_handle(): a clone of the handle.
GetHandleRT(t, handle) ==
    /\ rtPc[t] = "idle"
    /\ rtPc' = [rtPc EXCEPT ![t] = "done"]
    /\ rtApi' = [rtApi EXCEPT ![t] = "rt"]
    /\ rtArg' = [rtArg EXCEPT ![t] = None]
    /\ rtRet' = [rtRet EXCEPT ![t] = handle]
    /\ UNCHANGED <<IO_RT, onceRunner, rtBuilt>>

\* IO_RT.get_or_init(..): the runtime already there is returned; otherwise
\* the thread runs the initializer once no other thread is running one
\* (it waits while one is).
OnceEnter(t) ==
    /\ rtPc[t] = "get_or_init"
    /\ IF IO_RT # None
       THEN /\ rtPc' = [rtPc EXCEPT ![t] = "done"]
            /\ rtRet' = [rtRet EXCEPT ![t] = Handle(IO_RT[1])]
            /\ UNCHANGED onceRunner
       ELSE /\ MayInitialize(onceRunner)
            /\ onceRunner' = t
            /\ rtPc' = [rtPc EXCEPT ![t] = "init"]
            /\ UNCHANGED rtRet
    /\ UNCHANGED <<IO_RT, rtApi, rtArg, rtBuilt>>

\* The initializer: the runtime is built from the configuration of this
\* call and stored; expect panics where the build fails (built = FALSE) and
\* the builder panics on worker_threads(0); a panic leaves IO_RT unset.
OnceInit(t, built) ==
    LET rt == BuilderOf(rtArg[t], Len(rtBuilt) + 1) IN
    /\ rtPc[t] = "init"
    /\ onceRunner' = IF onceRunner = t THEN 0 ELSE onceRunner
    /\ IF rt # None /\ built
       THEN /\ IO_RT' = rt
            /\ rtBuilt' = Append(rtBuilt, rt[1])
            /\ rtPc' = [rtPc EXCEPT ![t] = "done"]
            /\ rtRet' = [rtRet EXCEPT ![t] = Handle(rt[1])]
       ELSE /\ rtPc' = [rtPc EXCEPT ![t] = "panicked"]
            /\ UNCHANGED <<IO_RT, rtBuilt, rtRet>>
    /\ UNCHANGED <<rtApi, rtArg>>

\* The call is over.
RtReturn(t) ==
    /\ rtPc[t] \in {"done", "panicked"}
    /\ rtPc' = [rtPc EXCEPT ![t] = "idle"]
    /\ rtApi' = [rtApi EXCEPT ![t] = ""]
    /\ rtArg' = [rtArg EXCEPT ![t] = None]
    /\ rtRet' = [rtRet EXCEPT ![t] = NoHandle]
    /\ UNCHANGED <<IO_RT, onceRunner, rtBuilt>>

(***************************************************************************)
(* RetryConfigParse::parse_retry_config.                                   *)
(***************************************************************************)
\* The String of a sequence of characters.
RECURSIVE Str(_)
Str(v) == IF v = <<>> THEN "" ELSE Head(v) \o Str(Tail(v))

LowerCase ==
    {"a", "b", "c", "d", "e", "f", "g", "h", "i", "j", "k", "l", "m",
     "n", "o", "p", "q", "r", "s", "t", "u", "v", "w", "x", "y", "z"}
UpperCase ==
    {"A", "B", "C", "D", "E", "F", "G", "H", "I", "J", "K", "L", "M",
     "N", "O", "P", "Q", "R", "S", "T", "U", "V", "W", "X", "Y", "Z"}
\* The characters humantime takes for a unit: 'a'..='z' | 'A'..='Z' | the
\* micro sign U+00B5.
IsLetter(c) == c \in LowerCase \cup UpperCase \cup {"µ"}

\* char::is_whitespace: U+0009 .. U+000D, U+0020, U+0085, U+00A0, U+1680,
\* U+2000 .. U+200A, U+2028, U+2029, U+202F, U+205F, U+3000.  A character
\* that a string of the model cannot hold is the element "U+XXXX" of the
\* sequence of characters.
WhiteSpace ==
    { " ", "\t", "\n", "\f", "\r",
      "U+000B", "U+0085", "U+00A0", "U+1680", "U+2000", "U+2001",
      "U+2002", "U+2003", "U+2004", "U+2005", "U+2006", "U+2007",
      "U+2008", "U+2009", "U+200A", "U+2028", "U+2029", "U+202F",
      "U+205F", "U+3000" }
IsSpace(c) == c \in WhiteSpace

\* u64 values are held as their decimal digits without leading zeros (zero
\* is <<0>>): they do not fit the integers of the checker.
U64Max == UsizeMaxDigits
BigNorm(d) == LET st == StripZeros(d) IN IF st = <<>> THEN <<0>> ELSE st
RECURSIVE DigitsOf(_)
DigitsOf(n) == IF n < 10 THEN <<n>> ELSE Append(DigitsOf(n \div 10), n % 10)
\* a + b: the digit at a place is the sum of the two digits and of the
\* carry into the place, which is 1 when a lower place makes ten or more and
\* every place between makes nine.
BigAdd(a, b) ==
    LET n == (IF Len(a) > Len(b) THEN Len(a) ELSE Len(b)) + 1
        x(p) == IF p > n - Len(a) THEN a[p - (n - Len(a))] ELSE 0
        y(p) == IF p > n - Len(b) THEN b[p - (n - Len(b))] ELSE 0
        carry(p) ==
            IF \E j \in (p + 1) .. n :
                  /\ x(j) + y(j) >= 10
                  /\ \A m \in (p + 1) .. (j - 1) : x(m) + y(m) = 9
            THEN 1 ELSE 0
    IN  BigNorm([p \in 1 .. n |-> (x(p) + y(p) + carry(p)) % 10])
\* a * k for one digit k, from a, 2a (m2) and 4a (m4).
BigMulFrom(a, m2, m4, k) ==
    CASE k = 0 -> <<0>>
      [] k = 1 -> a
      [] k = 2 -> m2
      [] k = 3 -> BigAdd(m2, a)
      [] k = 4 -> m4
      [] k = 5 -> BigAdd(m4, a)
      [] k = 6 -> BigAdd(m4, m2)
      [] k = 7 -> BigAdd(m4, BigAdd(m2, a))
      [] k = 8 -> BigAdd(m4, m4)
      [] k = 9 -> BigAdd(BigAdd(m4, m4), a)
BigMulDouble(a, m2, k) == BigMulFrom(a, m2, BigAdd(m2, m2), k)
BigMulSmall(a, k) == BigMulDouble(a, BigAdd(a, a), k)
\* a * b, the digits of b taken from the first: acc * 10 + a * b[i] at
\* each digit.
RECURSIVE BigMulAcc(_, _, _, _)
BigMulAcc(a, b, i, acc) ==
    IF Len(acc) = 0 \/ i > Len(b) THEN acc
    ELSE BigMulAcc(a, b, i + 1,
                   BigAdd(BigNorm(Append(acc, 0)), BigMulSmall(a, b[i])))
BigMul(a, b) == BigMulAcc(a, b, 1, <<0>>)
FitsU64(d) == ~DigitsGreater(d, U64Max)
\* u64::checked_add, u64::checked_mul: None on overflow.
Checked(r) == IF FitsU64(r) THEN Some(r) ELSE None
CheckedAdd(a, b) == Checked(BigAdd(a, b))
CheckedMul(a, k) == Checked(BigMul(a, k))
\* d / 10^k and d % 10^k.
BigShift(d, k) == IF Len(d) <= k THEN <<0>> ELSE SubSeq(d, 1, Len(d) - k)
BigLow(d, k) ==
    BigNorm(IF Len(d) <= k THEN d ELSE SubSeq(d, Len(d) - k + 1, Len(d)))

\* <usize as FromStr>::Err, displayed (the value did not parse): the digits
\* are taken from the left, and the first character that is no digit or the
\* first digit with which the number no longer fits ends the parse.
UsizeErrorText(v) ==
    LET body == IF v # <<>> /\ Head(v) = "+" THEN Tail(v) ELSE v
        overflows(i) ==
            DigitsGreater(BigNorm([k \in 1 .. i |-> DigitVal(body[k])]), U64Max)
        bad == { i \in 1 .. Len(body) :
                    \/ ~IsDigit(body[i])
                    \/ (\A k \in 1 .. i : IsDigit(body[k])) /\ overflows(i) }
        first == CHOOSE i \in bad : \A j \in bad : i <= j
    IN  IF v = <<>> THEN "cannot parse integer from empty string"
        ELSE IF body = <<>> \/ v = <<"-">> THEN "invalid digit found in string"
        ELSE IF bad # {} /\ IsDigit(body[first])
        THEN "number too large to fit in target type"
        ELSE "invalid digit found in string"

\* std::time::Duration: whole seconds (a u64, as digits) and nanoseconds
\* below NanosPerSec.
NanosPerSec == 1000000000
Duration(secs, nanos) == [secs |-> secs, nanos |-> nanos]
Secs(n) == Duration(DigitsOf(n), 0)

\* What a step of the parser ends with: a Duration, an error, or a panic.
DurOk(d) == [kind |-> "ok", d |-> d]
DurErr == [kind |-> "err", d |-> Duration(<<0>>, 0)]
DurPanic == [kind |-> "panic", d |-> Duration(<<0>>, 0)]

\* Duration::new(secs, nanos): the whole seconds in nanos are carried into
\* secs, which panics when they overflow.
DurationCarry(secs, nanos) ==
    IF secs = None THEN DurPanic
    ELSE DurOk(Duration(secs[1], DigitsValue(nanos, 0)))
DurationNew(secs, nanos) ==
    IF Len(nanos) <= 9 THEN DurOk(Duration(secs, DigitsValue(nanos, 0)))
    ELSE DurationCarry(CheckedAdd(secs, BigShift(nanos, 9)), BigLow(nanos, 9))

\* humantime's units: whether the whole units count in nanoseconds (sub) and
\* how many nanoseconds or seconds one is (k); for the fraction of a unit,
\* whether it counts in seconds (fsec) and how many seconds or nanoseconds
\* one unit is (fk, None for the unit that takes no fraction).  None for an
\* unknown (or no) unit.
Unit(sub, k, fsec, fk) == [sub |-> sub, k |-> k, fsec |-> fsec, fk |-> fk]
NanosOf(secs) == DigitsOf(secs) \o [i \in 1 .. 9 |-> 0]
UnitOf(unit) ==
    CASE unit \in {"nanos", "nsec", "ns"} -> Some(Unit(TRUE, <<1>>, FALSE, None))
      [] unit \in {"usec", "us", "µs"} ->
            Some(Unit(TRUE, DigitsOf(1000), FALSE, Some(DigitsOf(1000))))
      [] unit \in {"millis", "msec", "ms"} ->
            Some(Unit(TRUE, DigitsOf(1000000), FALSE, Some(DigitsOf(1000000))))
      [] unit \in {"seconds", "second", "secs", "sec", "s"} ->
            Some(Unit(FALSE, <<1>>, FALSE, Some(NanosOf(1))))
      [] unit \in {"minutes", "minute", "min", "mins", "m"} ->
            Some(Unit(FALSE, DigitsOf(60), FALSE, Some(NanosOf(60))))
      [] unit \in {"hours", "hour", "hr", "hrs", "h"} ->
            Some(Unit(FALSE, DigitsOf(3600), TRUE, Some(DigitsOf(3600))))
      [] unit \in {"days", "day", "d"} ->
            Some(Unit(FALSE, DigitsOf(86400), TRUE, Some(DigitsOf(86400))))
      [] unit \in {"weeks", "week", "wk", "wks", "w"} ->
            Some(Unit(FALSE, DigitsOf(604800), TRUE, Some(DigitsOf(604800))))
      [] unit \in {"months", "month", "M"} ->
            Some(Unit(FALSE, DigitsOf(2630016), TRUE, Some(DigitsOf(2630016))))
      [] unit \in {"years", "year", "yr", "yrs", "y"} ->
            Some(Unit(FALSE, DigitsOf(31557600), TRUE, Some(DigitsOf(31557600))))
      [] OTHER -> None

\* add_current(sec, nsec, out): the nanoseconds are added to those of out
\* and what is above NanosPerSec is carried (NanosPerSec itself is not),
\* then the seconds are added, an overflow of a u64 being an error; out
\* becomes Duration::new of the two, which panics when its own carry
\* overflows.  The operators before add_current are its steps, from the
\* last: the total of the seconds, the seconds with the carry, the sum of
\* the nanoseconds.
AddTotal(total, nsec) ==
    IF total = None THEN DurErr ELSE DurationNew(total[1], nsec)
AddSecs(sec, nsec, out) ==
    IF sec = None THEN DurErr
    ELSE AddTotal(CheckedAdd(out.secs, sec[1]), nsec)
AddNanos(sec, sum, out) ==
    IF sum = None THEN DurErr
    ELSE IF DigitsGreater(sum[1], DigitsOf(NanosPerSec))
    THEN AddSecs(CheckedAdd(sec, BigShift(sum[1], 9)), BigLow(sum[1], 9), out)
    ELSE AddSecs(Some(sec), sum[1], out)
add_current(sec, nsec, out) ==
    AddNanos(sec, CheckedAdd(DigitsOf(out.nanos), nsec), out)

\* OverflowOp::div by the denominator 10^k of a fraction: an error (None)
\* unless the division is exact.
ExactDiv(a, k) ==
    IF a = None THEN None
    ELSE IF BigLow(a[1], k) # <<0>> THEN None
    ELSE Some(BigShift(a[1], k))

\* parse_unit: n units are added to out, then the fraction
\* frac / 10^Len(frac) of one unit (frac the digits after the point, <<>>
\* for none): frac times the unit, divided by the denominator, in
\* nanoseconds or, from the hour on, in seconds.  An unknown unit, an
\* overflow, a division that is not exact and a fraction of nanoseconds are
\* errors.  The operators before parse_unit are its steps, from the last.
FractionPart(part, u, out) ==
    IF part = None THEN DurErr
    ELSE add_current(IF u.fsec THEN part[1] ELSE <<0>>,
                     IF u.fsec THEN <<0>> ELSE part[1], out)
UnitFraction(first, frac, u) ==
    IF first.kind # "ok" \/ frac = <<>> THEN first
    ELSE IF u.fk = None THEN DurErr
    ELSE FractionPart(ExactDiv(CheckedMul(BigNorm(frac), u.fk[1]), Len(frac)),
                      u, first.d)
UnitWhole(whole, frac, u, out) ==
    IF whole = None THEN DurErr
    ELSE UnitFraction(add_current(IF u.sub THEN <<0>> ELSE whole[1],
                                  IF u.sub THEN whole[1] ELSE <<0>>, out),
                      frac, u)
parse_unit(n, frac, unit, out) ==
    IF UnitOf(unit) = None THEN DurErr
    ELSE UnitWhole(CheckedMul(n, UnitOf(unit)[1].k), frac, UnitOf(unit)[1], out)

\* Parser::parse: numbers each followed by a unit, white space between them
\* allowed, a number with an optional fraction after a point; the sum of the
\* parts.  The parser reads a character at a time; the operators take a
\* whole run of characters of one kind at once: of tells for each place
\* whether its character is of the kind, and RunEnd is the first place from
\* i on whose character is not (Len(of) + 1 when all are).  The runs are
\* white space, a number (white space inside a number is skipped) and the
\* letters of a unit; DigitsIn is the digits between two places.
RunEnd(of, i) ==
    IF \A k \in i .. Len(of) : of[k] THEN Len(of) + 1
    ELSE CHOOSE k \in i .. Len(of) : ~of[k] /\ \A m \in i .. k - 1 : of[m]
SpacesEnd(v, i) == RunEnd([k \in 1 .. Len(v) |-> IsSpace(v[k])], i)
NumberEnd(v, i) ==
    RunEnd([k \in 1 .. Len(v) |-> IsDigit(v[k]) \/ IsSpace(v[k])], i)
LettersEnd(v, i) == RunEnd([k \in 1 .. Len(v) |-> IsLetter(v[k])], i)
OnlyDigits(v) == SelectSeq(v, IsDigit)
DigitsIn(v, i, j) ==
    SubSeq([k \in 1 .. Len(OnlyDigits(SubSeq(v, i, j - 1))) |->
              DigitVal(OnlyDigits(SubSeq(v, i, j - 1))[k])],
           1, Len(OnlyDigits(SubSeq(v, i, j - 1))))
\* The operators are the parser at the start of a part (parse_first_char;
\* end is what the end of the input gives there), at the first digit of a
\* number, after the point of a fraction (parse_fractional_part, of at most
\* 19 digits), at the first letter of a unit and after one; n is the number
\* (digits; one that does not fit a u64 is an error), frac the digits after
\* the point, out the sum so far and j the place where the run ends.
RECURSIVE DurNumber(_, _, _), DurFraction(_, _, _, _),
          DurUnit(_, _, _, _, _), DurAfterUnit(_, _, _)
DurFirstEnd(v, j, out, end) ==
    IF j > Len(v) THEN end
    ELSE IF IsDigit(v[j]) THEN DurNumber(v, j, out)
    ELSE DurErr
DurFirst(v, i, out, end) == DurFirstEnd(v, SpacesEnd(v, i), out, end)
DurNumberEnd(v, j, n, out) ==
    IF ~FitsU64(n) \/ j > Len(v) THEN DurErr
    ELSE IF IsLetter(v[j]) THEN DurUnit(v, j, n, <<>>, out)
    ELSE IF v[j] = "." THEN DurFraction(v, j + 1, n, out)
    ELSE DurErr
DurNumber(v, i, out) ==
    DurNumberEnd(v, NumberEnd(v, i),
                 BigNorm(DigitsIn(v, i, NumberEnd(v, i))), out)
DurFractionEnd(v, j, n, frac, out) ==
    IF Len(frac) > 19 \/ j > Len(v) THEN DurErr
    ELSE IF IsLetter(v[j]) /\ frac # <<>> THEN DurUnit(v, j, n, frac, out)
    ELSE DurErr
DurFraction(v, i, n, out) ==
    DurFractionEnd(v, NumberEnd(v, i), n,
                   DigitsIn(v, i, NumberEnd(v, i)), out)
DurUnitEnd(v, i, j, n, frac, out) ==
    IF j <= Len(v) /\ ~IsDigit(v[j]) /\ ~IsSpace(v[j]) THEN DurErr
    ELSE DurAfterUnit(v, j, parse_unit(n, frac, Str(SubSeq(v, i, j - 1)), out))
DurUnit(v, i, n, frac, out) ==
    DurUnitEnd(v, i, LettersEnd(v, i), n, frac, out)
\* The unit has ended at i, with a digit, white space or the end of the
\* input: part is what parse_unit gave.
DurAfterUnit(v, i, part) ==
    IF part.kind # "ok" THEN part
    ELSE IF i > Len(v) THEN part
    ELSE IF IsDigit(v[i]) THEN DurNumber(v, i, part.d)
    ELSE DurFirst(v, i + 1, part.d, part)

\* humantime::parse_duration: "0" is the zero Duration; anything else is
\* parsed, an input without a part being an error.
parse_duration(v) ==
    IF v = <<"0">> THEN DurOk(Duration(<<0>>, 0))
    ELSE DurFirst(v, 1, Duration(<<0>>, 0), DurErr)

\* f64: a binary64.  A finite value is its sign, its significand mant (an
\* integer below 2^53, as decimal digits) and its exponent exp, the value
\* being mant * 2^exp: mant is at least 2^52 for a normal number, and exp is
\* F64MinExp for a subnormal one; zero has the significand <<0>> and the
\* exponent 0.
F64MinExp == -1074
F64MaxExp == 971
Pow2_52 == <<4, 5, 0, 3, 5, 9, 9, 6, 2, 7, 3, 7, 0, 4, 9, 6>>
Pow2_53 == <<9, 0, 0, 7, 1, 9, 9, 2, 5, 4, 7, 4, 0, 9, 9, 2>>
Pow2_54 == <<1, 8, 0, 1, 4, 3, 9, 8, 5, 0, 9, 4, 8, 1, 9, 8, 4>>
F64Inf(neg) == [kind |-> "inf", neg |-> neg, mant |-> <<>>, exp |-> 0]
F64NaN(neg) == [kind |-> "nan", neg |-> neg, mant |-> <<>>, exp |-> 0]
F64Zero(neg) == [kind |-> "finite", neg |-> neg, mant |-> <<0>>, exp |-> 0]
F64Finite(neg, mant, exp) ==
    [kind |-> "finite", neg |-> neg, mant |-> mant, exp |-> exp]

\* Twice and half (rounded down) a number given by its decimal digits: a
\* digit of the result depends on the digit at its place and on its
\* neighbour only.
DoubleDigits(d) ==
    (IF d[1] >= 5 THEN <<1>> ELSE <<>>) \o
    SubSeq([i \in 1 .. Len(d) |->
              ((2 * d[i]) % 10) + (IF i < Len(d) /\ d[i + 1] >= 5 THEN 1 ELSE 0)],
           1, Len(d))
HalfDigits(d) ==
    BigNorm([i \in 1 .. Len(d) |->
               (d[i] + (IF i > 1 /\ d[i - 1] % 2 = 1 THEN 10 ELSE 0)) \div 2])
IsOdd(d) == d[Len(d)] % 2 = 1

\* The scaling of a decimal to a significand.  The value is
\* (y + a fraction below 1, not zero iff sticky) / 10^frac * 2^exp; a step
\* halves y while y / 10^frac is 2^54 or more, and doubles it while that is
\* below 2^53 and exp is above the exponent of half the least subnormal.
Scaled(y, exp, sticky) == [y |-> y, exp |-> exp, sticky |-> sticky]
TooBig(st, frac) == ~DigitsGreater(Pow2_54, BigShift(st.y, frac))
TooSmall(st, frac) ==
    DigitsGreater(Pow2_53, BigShift(st.y, frac)) /\ st.exp > F64MinExp - 1
ScaleStep(st, frac) ==
    IF TooBig(st, frac)
    THEN Scaled(HalfDigits(st.y), st.exp + 1, st.sticky \/ IsOdd(st.y))
    ELSE IF TooSmall(st, frac)
    THEN Scaled(DoubleDigits(st.y), st.exp - 1, st.sticky)
    ELSE st
\* d doubled n times, and halved n times.
RECURSIVE Doublings(_, _)
Doublings(d, n) ==
    IF n = 0 \/ d = <<0>> THEN d ELSE Doublings(DoubleDigits(d), n - 1)
RECURSIVE Halvings(_, _)
Halvings(d, n) ==
    IF n = 0 \/ d = <<0>> THEN d ELSE Halvings(HalfDigits(d), n - 1)
\* Sixteen steps at once, where all sixteen double (the value is below 2^53
\* before the last of them, and the exponent above the least) or all
\* sixteen halve (the value is 2^54 or more before the last of them).
ScaleChunk == 16
AllDouble(st, frac) ==
    /\ DigitsGreater(Pow2_54, BigShift(Doublings(st.y, ScaleChunk), frac))
    /\ st.exp - ScaleChunk >= F64MinExp - 1
AllHalve(st, frac) ==
    ~DigitsGreater(Pow2_54, BigShift(Halvings(st.y, ScaleChunk - 1), frac))
ScaleUp(st) ==
    Scaled(Doublings(st.y, ScaleChunk), st.exp - ScaleChunk, st.sticky)
ScaleDown(st) ==
    Scaled(Halvings(st.y, ScaleChunk), st.exp + ScaleChunk,
           st.sticky \/ Doublings(Halvings(st.y, ScaleChunk), ScaleChunk) # st.y)
RECURSIVE Scale(_, _)
Scale(st, frac) ==
    IF ~TooBig(st, frac) /\ ~TooSmall(st, frac) THEN st
    ELSE IF AllDouble(st, frac) THEN Scale(ScaleUp(st), frac)
    ELSE IF AllHalve(st, frac) THEN Scale(ScaleDown(st), frac)
    ELSE Scale(ScaleStep(st, frac), frac)

\* The rounding of a scaled value to the nearest significand, a tie going
\* to the even one: q is the significand with one more bit, inexact whether
\* the value is more than q.  A significand that reaches 2^53 is 2^52 with
\* the next exponent, and an exponent above F64MaxExp is infinite.
RoundUp(q, inexact) == IsOdd(q) /\ (inexact \/ IsOdd(HalfDigits(q)))
F64Of(neg, mant, exp) ==
    IF mant = <<0>> THEN F64Zero(neg)
    ELSE IF mant = Pow2_53
    THEN (IF exp + 1 > F64MaxExp THEN F64Inf(neg)
          ELSE F64Finite(neg, Pow2_52, exp + 1))
    ELSE IF exp > F64MaxExp THEN F64Inf(neg)
    ELSE F64Finite(neg, mant, exp)
F64Round(neg, q, inexact, exp) ==
    F64Of(neg,
          IF RoundUp(q, inexact) THEN BigAdd(HalfDigits(q), <<1>>)
          ELSE HalfDigits(q),
          exp + 1)
F64Scaled(neg, st, frac) ==
    F64Round(neg, BigShift(st.y, frac),
             st.sticky \/ BigLow(st.y, frac) # <<0>>, st.exp)

\* The binary64 nearest to digits * 10^exp (correctly rounded, as
\* str::parse::<f64> is).  A value of 10^309 or more is infinite and one
\* below 10^-324 is zero.
F64Decimal(neg, sig, exp) ==
    IF sig = <<0>> THEN F64Zero(neg)
    ELSE IF Len(sig) + exp > 309 THEN F64Inf(neg)
    ELSE IF Len(sig) + exp < -323 THEN F64Zero(neg)
    ELSE IF exp >= 0
    THEN F64Scaled(neg, Scale(Scaled(sig \o [i \in 1 .. exp |-> 0], 0, FALSE), 0), 0)
    ELSE F64Scaled(neg, Scale(Scaled(sig, 0, FALSE), 0 - exp), 0 - exp)
F64(neg, digits, exp) == F64Decimal(neg, BigNorm(digits), exp)

\* parse_scientific: the digits of the exponent of a float literal, taken
\* while the number is below 0x10000.
RECURSIVE ExpValue(_, _)
ExpValue(d, acc) ==
    IF d = <<>> THEN acc
    ELSE ExpValue(Tail(d), IF acc < 65536 THEN acc * 10 + Head(d) ELSE acc)
Lower(c) ==
    IF c \in UpperCase /\ c \in DOMAIN CodeOf THEN AsciiChar[CodeOf[c] + 32] ELSE c

\* str::parse::<f64>(): an optional sign, then inf, infinity or nan in any
\* case (the sign is kept: "-nan" is a NaN with the sign bit set), or
\* digits with at most one point and at least one digit, and an optional
\* exponent (e or E, an optional sign, digits); None for what is no float
\* literal.
ParseF64(v) ==
    LET signed == v # <<>> /\ Head(v) \in {"+", "-"}
        neg == signed /\ Head(v) = "-"
        body == IF signed THEN Tail(v) ELSE v
        word == [i \in 1 .. Len(body) |-> Lower(body[i])]
        es == { i \in 1 .. Len(body) : body[i] \in {"e", "E"} }
        epos == IF es = {} THEN Len(body) + 1
                ELSE CHOOSE i \in es : \A j \in es : i <= j
        num == SubSeq(body, 1, epos - 1)
        etail == SubSeq(body, epos + 1, Len(body))
        esigned == etail # <<>> /\ Head(etail) \in {"+", "-"}
        edigits == IF esigned THEN Tail(etail) ELSE etail
        points == { i \in 1 .. Len(num) : num[i] = "." }
        point == IF points = {} THEN Len(num) + 1 ELSE CHOOSE i \in points : TRUE
        digitsAt == { i \in 1 .. Len(num) : IsDigit(num[i]) }
        digits == [k \in 1 .. Cardinality(digitsAt) |->
                     DigitVal(num[IF k < point THEN k ELSE k + 1])]
        e == IF es = {} THEN 0
             ELSE LET m == ExpValue([i \in 1 .. Len(edigits) |-> DigitVal(edigits[i])], 0)
                  IN  IF esigned /\ Head(etail) = "-" THEN 0 - m ELSE m
    IN  IF word \in {<<"i", "n", "f">>, <<"i", "n", "f", "i", "n", "i", "t", "y">>}
        THEN Some(F64Inf(neg))
        ELSE IF word = <<"n", "a", "n">> THEN Some(F64NaN(neg))
        ELSE IF \/ Cardinality(points) > 1
                \/ digitsAt = {}
                \/ digitsAt \cup points # 1 .. Len(num)
                \/ es # {} /\ (edigits = <<>> \/ \E i \in 1 .. Len(edigits) :
                                                    ~IsDigit(edigits[i]))
        THEN None
        ELSE Some(F64(neg, digits,
                      e + (IF points = {} THEN 0 ELSE point - Len(num))))
F64ErrorText(v) ==
    IF v = <<>> THEN "cannot parse float from empty string"
    ELSE "invalid float literal"

\* RetryConfig::default() of the object_store crate.
RetryConfig(max_retries, retry_timeout, init_backoff, max_backoff, base) ==
    [max_retries |-> max_retries, retry_timeout |-> retry_timeout,
     backoff |-> [init_backoff |-> init_backoff, max_backoff |-> max_backoff,
                  base |-> base]]
RetryConfigDefault ==
    RetryConfig(10, Secs(180), Duration(<<0>>, 100000000), Secs(15),
                F64(FALSE, <<2>>, 0))

RetryField(config, key) ==
    CASE key = "max_retries" -> config.max_retries
      [] key = "retry_timeout" -> config.retry_timeout
      [] key = "backoff_config.init_backoff" -> config.backoff.init_backoff
      [] key = "backoff_config.max_backoff" -> config.backoff.max_backoff
      [] key = "backoff_config.base" -> config.backoff.base

DurationErrorText(v) == "failed to parse \"" \o Str(v) \o "\" as Duration"

\* A call that panics inside humantime::parse_duration.
DurationPanic ==
    [ok |-> FALSE, val |-> None,
     err |-> [kind |-> "panic", msg |-> "overflow in Duration::new"]]

\* The keys parse_retry_config reads, in the order it reads them.
RecognizedKeys ==
    <<"max_retries", "retry_timeout", "backoff_config.init_backoff",
      "backoff_config.max_backoff", "backoff_config.base">>

\* value.parse().map_err(|e| DeltaTableError::generic(e.to_string())) of
\* the two numeric keys.
ParsedOr(parsed, text) ==
    IF parsed = None THEN Err(DeltaGeneric(text)) ELSE Ok(parsed[1])
\* parse_duration(value).map_err(..) of the three Duration keys.
DurationResult(parsed, value) ==
    IF parsed.kind = "ok" THEN Ok(parsed.d)
    ELSE IF parsed.kind = "panic" THEN DurationPanic
    ELSE Err(DeltaGeneric(DurationErrorText(value)))
\* What the parse of one present key gives.
ParseField(key, value) ==
    CASE key = "max_retries" -> ParsedOr(ParseUsize(value), UsizeErrorText(value))
      [] key = "backoff_config.base" -> ParsedOr(ParseF64(value), F64ErrorText(value))
      [] OTHER -> DurationResult(parse_duration(value), value)

\* The parse of one key: None where the key is absent.
ParseKey(options, key) ==
    IF OptionGet(options, key) = None THEN None
    ELSE Some(ParseField(key, OptionGet(options, key)[1]))

\* The RetryConfig of the parsed keys: the first key that did not parse
\* ends the call with its error (or the panic of the parser), and an absent
\* key leaves the field of RetryConfig::default().
RetryConfigOf(max_retries, retry_timeout, bc_init_backoff, bc_max_backoff, bc_base) ==
    LET failed(parsed) == parsed # None /\ ~parsed[1].ok
        field(parsed, key) ==
            IF parsed = None THEN RetryField(RetryConfigDefault, key)
            ELSE parsed[1].val[1]
    IN  IF failed(max_retries) THEN max_retries[1]
        ELSE IF failed(retry_timeout) THEN retry_timeout[1]
        ELSE IF failed(bc_init_backoff) THEN bc_init_backoff[1]
        ELSE IF failed(bc_max_backoff) THEN bc_max_backoff[1]
        ELSE IF failed(bc_base) THEN bc_base[1]
        ELSE Ok(RetryConfig(field(max_retries, "max_retries"),
                            field(retry_timeout, "retry_timeout"),
                            field(bc_init_backoff, "backoff_config.init_backoff"),
                            field(bc_max_backoff, "backoff_config.max_backoff"),
                            field(bc_base, "backoff_config.base")))

\* parse_retry_config(options): each key that is present is parsed in turn
\* into its field.
parse_retry_config(options) ==
    RetryConfigOf(ParseKey(options, "max_retries"),
                  ParseKey(options, "retry_timeout"),
                  ParseKey(options, "backoff_config.init_backoff"),
                  ParseKey(options, "backoff_config.max_backoff"),
                  ParseKey(options, "backoff_config.base"))

\* The option maps parse_retry_config is called with: for each key, the
\* values it may have when it is present.
RetryValues ==
    [k \in {"max_retries", "retry_timeout", "backoff_config.init_backoff",
            "backoff_config.max_backoff", "backoff_config.base", "region"} |->
        CASE k = "max_retries" ->
                { Chars("100"), Chars("x"), Chars("-1"),
                  Chars("99999999999999999999x") }
          [] k = "retry_timeout" ->
                { Chars("300s"), Chars("3x"), Chars("5"), Chars("1.5s"),
                  Chars("0") }
          [] k = "backoff_config.init_backoff" ->
                { Chars("20s"), Chars("20 ms"), Chars("s"),
                  <<"1", "\t", "µ", "s">>, Chars("1.0001h"), Chars("0.5ns") }
          [] k = "backoff_config.max_backoff" ->
                { Chars("1h"), Chars("1h30m"), <<>>,
                  Chars("18446744073709551615s 1000000000ns 1x"),
                  Chars("18446744073709551614s 1000000000ns 1s"),
                  Chars("18446744073709551616s") }
          [] k = "backoff_config.base" ->
                { Chars("50.0"), Chars("50.000000000000001"), Chars(".5"),
                  Chars("1,5"), Chars("1e5"), Chars("inf"), Chars("-nan") }
          [] OTHER -> { Chars("eu") }]
RetryChoices(key) == {None} \cup { Some(v) : v \in RetryValues[key] }
RetryMapOf(choice) ==
    [k \in { key \in DOMAIN choice : choice[key] # None } |-> choice[k][1]]
RetryOptionMaps ==
    { RetryMapOf([k \in DOMAIN RetryValues |->
                    CASE k = "max_retries" -> a
                      [] k = "retry_timeout" -> b
                      [] k = "backoff_config.init_backoff" -> c
                      [] k = "backoff_config.max_backoff" -> d
                      [] k = "backoff_config.base" -> e
                      [] OTHER -> f]) :
        a \in RetryChoices("max_retries"),
        b \in RetryChoices("retry_timeout"),
        c \in RetryChoices("backoff_config.init_backoff"),
        d \in RetryChoices("backoff_config.max_backoff"),
        e \in RetryChoices("backoff_config.base"),
        f \in RetryChoices("region") }

VARIABLES
    retryOptions,   \* the StorageOptions given to parse_retry_config
    retryOut        \* None, or Some(the DeltaResult<RetryConfig> returned)

retryVars == <<retryOptions, retryOut>>

InitRetryVars ==
    /\ retryOptions = NoOptions
    /\ retryOut = None

\* A call of parse_retry_config.
ParseRetryConfig ==
    /\ retryOut = None
    /\ retryOut' = Some(parse_retry_config(retryOptions))
    /\ UNCHANGED retryOptions

(***************************************************************************)
(* commit_uri_from_version.                                                *)
(***************************************************************************)
\* An i64: its sign and the decimal digits of its magnitude (no leading
\* zero; <<0>> for zero).
I64(neg, digits) == [neg |-> neg, digits |-> digits]
I64_MAX == I64(FALSE, <<9, 2, 2, 3, 3, 7, 2, 0, 3, 6, 8, 5, 4, 7, 7, 5, 8, 0, 7>>)
I64_MIN == I64(TRUE, <<9, 2, 2, 3, 3, 7, 2, 0, 3, 6, 8, 5, 4, 7, 7, 5, 8, 0, 8>>)

\* Bound: the digits of the versions other than the extremes.
MaxVersionDigits == 2
Versions ==
    ({ I64(neg, digits) :
         neg \in BOOLEAN,
         digits \in { d \in UNION { [1 .. n -> 0 .. 9] : n \in 1 .. MaxVersionDigits } :
                        Len(d) = 1 \/ d[1] # 0 } }
       \ { I64(TRUE, <<0>>) })
    \cup { I64_MAX, I64_MIN }

RECURSIVE Zeros(_)
Zeros(n) == IF n <= 0 THEN <<>> ELSE <<"0">> \o Zeros(n - 1)

\* format!("{version:020}"): at least 20 characters, the sign first, then
\* zeros, then the digits.
Format020(version) ==
    LET sign == IF version.neg THEN <<"-">> ELSE <<>>
        digits == [i \in 1 .. Len(version.digits) |-> DigitChars[version.digits[i] + 1]]
    IN  sign \o Zeros(20 - Len(sign) - Len(digits)) \o digits

\* DELTA_LOG_PATH.
DELTA_LOG_PATH == <<"_delta_log">>

\* Path::child(part): the path with the part appended (none of the
\* characters here is one that child encodes).
Child(path, part) == Append(path, part)

commit_uri_from_version(version) ==
    Child(DELTA_LOG_PATH, Str(Format020(version)) \o ".json")

VARIABLES
    cuVersion,      \* the version commit_uri_from_version is called with
    cuOut,          \* None, or Some(the Path the last call returned)
    cuPrev,         \* None, or Some(the Path the call before it returned)
    deltaLogPath    \* the LazyLock of DELTA_LOG_PATH: None until first used

cuVars == <<cuVersion, cuOut, cuPrev, deltaLogPath>>

InitCuVars ==
    /\ cuVersion = I64(FALSE, <<0>>)
    /\ cuOut = None
    /\ cuPrev = None
    /\ deltaLogPath = None

\* A call of commit_uri_from_version (at most two of them).
CommitUriFromVersion ==
    /\ cuPrev = None
    /\ cuPrev' = cuOut
    /\ cuOut' = Some(commit_uri_from_version(cuVersion))
    /\ deltaLogPath' = Some(DELTA_LOG_PATH)
    /\ UNCHANGED cuVersion

(***************************************************************************)
(* The decorators a store is composed of, and how a store is displayed.    *)
(***************************************************************************)
\* A usize, displayed.
RECURSIVE UsizeStr(_)
UsizeStr(n) ==
    IF n < 10 THEN DigitChars[n + 1]
    ELSE UsizeStr(n \div 10) \o DigitChars[(n % 10) + 1]

\* A Path, displayed: its parts joined by the delimiter.
RECURSIVE PathDisplay(_)
PathDisplay(path) ==
    IF path = <<>> THEN ""
    ELSE IF Len(path) = 1 THEN Head(path)
    ELSE Head(path) \o "/" \o PathDisplay(Tail(path))

\* format!("{store}"): InMemory, PrefixStore and LimitStore as the
\* object_store crate displays them.
RECURSIVE DisplayOf(_, _)
DisplayOf(layers, base) ==
    IF layers = <<>>
    THEN (IF base.kind = "LocalFileSystem"
          THEN "LocalFileSystem(file://" \o PathStr(base.root) \o ")"
          ELSE base.kind)
    ELSE IF Head(layers).kind = "PrefixStore"
    THEN "PrefixObjectStore(" \o PathDisplay(Head(layers).prefix) \o ")"
    ELSE "LimitStore(" \o UsizeStr(Head(layers).limit) \o ", "
             \o DisplayOf(Tail(layers), base) \o ")"
Display(store) == DisplayOf(store.layers, store.base)

\* The option maps and prefixes the factory and url_prefix_handler are
\* called with.
DecOptions ==
    { NoOptions, LimitOption(<<"2">>), LimitOption(<<"5", "0", "0">>),
      LimitOption(<<"0">>), LimitOption(<<"x">>) }
DecPrefixes == { RootPath, <<"a">>, <<"databases", "foo", "bar">> }
DecStores ==
    { Backend("InMemory", 1, RootPath),
      Wrap(Layer("LimitStore", 2, RootPath), Backend("InMemory", 1, RootPath)) }

VARIABLES
    decUrl,         \* the url given to parse_url_opts
    decOptions,     \* the StorageOptions given to it
    decStore,       \* the store given to url_prefix_handler
    decPrefix,      \* the prefix given to url_prefix_handler
    decMade,        \* None, or Some(what parse_url_opts returned)
    decPrefixed     \* None, or Some(the store url_prefix_handler returned)

decVars == <<decUrl, decOptions, decStore, decPrefix, decMade, decPrefixed>>

InitDecVars ==
    /\ decUrl = DefaultUrl
    /\ decOptions = NoOptions
    /\ decStore = Backend("InMemory", 1, RootPath)
    /\ decPrefix = RootPath
    /\ decMade = None
    /\ decPrefixed = None

\* DefaultObjectStoreFactory.parse_url_opts(url, options)
DecParseUrlOpts ==
    /\ decMade = None
    /\ decMade' = Some(parse_url_opts(decUrl, decOptions, 1))
    /\ UNCHANGED <<decUrl, decOptions, decStore, decPrefix, decPrefixed>>

\* url_prefix_handler(store, prefix)
DecUrlPrefixHandler ==
    /\ decPrefixed = None
    /\ decPrefixed' = Some(url_prefix_handler(decStore, decPrefix))
    /\ UNCHANGED <<decUrl, decOptions, decStore, decPrefix, decMade>>

(***************************************************************************)
(* factories(): the process-wide FactoryRegistry behind a OnceLock, the    *)
(* handles callers hold on it and what they insert and look up.            *)
(***************************************************************************)
VARIABLES
    frCell,         \* REGISTRY as a cell: None, or Some(address of the DashMap)
    frHeap,         \* the DashMaps allocated: address -> (key -> factory)
    frRunner,       \* the thread running REGISTRY's initializer, 0 for none
    frPc,           \* the position of each thread
    frApi,          \* what each thread called: "factories" or "store_for"
    frUrl,          \* the url of each thread's store_for call
    frHandle,       \* the FactoryRegistry (an Arc) each thread holds, 0 for none
    frFound,        \* whether each thread's factories().get(&scheme) found one
    frInits,        \* history: how often the initializer has run
    frInserted      \* history: the Urls factories were inserted under

frVars ==
    <<frCell, frHeap, frRunner, frPc, frApi, frUrl, frHandle, frFound,
      frInits, frInserted>>

\* Bound: the threads that call factories() and store_for.
NumFrThreads == 2

FrThreads == 1 .. NumFrThreads

\* The Urls callers insert factories under (FactoryRegistry is a DashMap
\* keyed by Url: insert takes any Url), and the urls store_for is given.
FrKeys ==
    { MkUrl("s3", "", <<>>, None),
      MkUrl("s3", "bucket", <<>>, None),
      MkUrl("memory", "", <<>>, None) }
FrUrls ==
    { MkUrl("s3", "bucket", <<"t">>, None),
      MkUrl("memory", "h", <<"a">>, None),
      MkUrl("http", "example.com", <<"t">>, None) }

InitFrVars ==
    /\ frCell = None
    /\ frHeap = <<>>
    /\ frRunner = 0
    /\ frPc = [t \in FrThreads |-> "idle"]
    /\ frApi = [t \in FrThreads |-> ""]
    /\ frUrl = [t \in FrThreads |-> DefaultUrl]
    /\ frHandle = [t \in FrThreads |-> 0]
    /\ frFound = [t \in FrThreads |-> FALSE]
    /\ frInits = 0
    /\ frInserted = {}

\* factories() is called.
FactoriesCall(t) ==
    /\ frPc[t] = "idle"
    /\ frPc' = [frPc EXCEPT ![t] = "get_or_init"]
    /\ frApi' = [frApi EXCEPT ![t] = "factories"]
    /\ UNCHANGED <<frCell, frHeap, frRunner, frUrl, frHandle, frFound,
                   frInits, frInserted>>

\* store_for(url, ..) is called: the scheme url is parsed and unwrapped,
\* then factories() is called.
StoreForCall(t, url) ==
    /\ frPc[t] = "idle"
    /\ frPc' = [frPc EXCEPT ![t] = IF ParseSchemeUrl(url.scheme) = None
                                   THEN "panicked" ELSE "get_or_init"]
    /\ frApi' = [frApi EXCEPT ![t] = "store_for"]
    /\ frUrl' = [frUrl EXCEPT ![t] = url]
    /\ UNCHANGED <<frCell, frHeap, frRunner, frHandle, frFound, frInits,
                   frInserted>>

\* REGISTRY.get_or_init(..).clone(): a clone of the Arc already there;
\* otherwise the thread runs the initializer once no other thread is
\* running one.
FactoriesEnter(t) ==
    /\ frPc[t] = "get_or_init"
    /\ IF frCell # None
       THEN /\ frPc' = [frPc EXCEPT ![t] = "cloned"]
            /\ frHandle' = [frHandle EXCEPT ![t] = frCell[1]]
            /\ UNCHANGED frRunner
       ELSE /\ MayInitialize(frRunner)
            /\ frRunner' = t
            /\ frPc' = [frPc EXCEPT ![t] = "init"]
            /\ UNCHANGED frHandle
    /\ UNCHANGED <<frCell, frHeap, frApi, frUrl, frFound, frInits,
                   frInserted>>

\* The initializer: FactoryRegistry::default(), the two inserts, and the
\* registry stored in REGISTRY; the caller gets a clone of it.
FactoriesInit(t) ==
    LET address == Len(frHeap) + 1 IN
    /\ frPc[t] = "init"
    /\ frHeap' = Append(frHeap, BuiltinFactories)
    /\ frCell' = IF frCell = None THEN Some(address) ELSE frCell
    /\ frRunner' = IF frRunner = t THEN 0 ELSE frRunner
    /\ frInits' = frInits + 1
    /\ frHandle' = [frHandle EXCEPT ![t] = frCell'[1]]
    /\ frPc' = [frPc EXCEPT ![t] = "cloned"]
    /\ UNCHANGED <<frApi, frUrl, frFound, frInserted>>

\* factories().insert(key, factory) by a caller of factories().
FactoryInsert(t, key) ==
    LET registry == frHeap[frHandle[t]] IN
    /\ frPc[t] = "cloned"
    /\ frApi[t] = "factories"
    /\ frHeap' = [frHeap EXCEPT ![frHandle[t]] =
                    [k \in DOMAIN registry \cup {to_string(key)} |->
                        IF k = to_string(key) THEN "external" ELSE registry[k]]]
    /\ frInserted' = frInserted \cup {key}
    /\ UNCHANGED <<frCell, frRunner, frPc, frApi, frUrl, frHandle, frFound,
                   frInits>>

\* store_for's factories().get(&scheme)
StoreForGet(t) ==
    /\ frPc[t] = "cloned"
    /\ frApi[t] = "store_for"
    /\ frFound' = [frFound EXCEPT ![t] =
                     ParseSchemeUrl(frUrl[t].scheme)[1] \in
                         DOMAIN frHeap[frHandle[t]]]
    /\ frPc' = [frPc EXCEPT ![t] = "done"]
    /\ UNCHANGED <<frCell, frHeap, frRunner, frApi, frUrl, frHandle, frInits,
                   frInserted>>

\* The call is over and the caller's handle is dropped.
FrReturn(t) ==
    /\ \/ frPc[t] \in {"done", "panicked"}
       \/ frPc[t] = "cloned" /\ frApi[t] = "factories"
    /\ frPc' = [frPc EXCEPT ![t] = "idle"]
    /\ frApi' = [frApi EXCEPT ![t] = ""]
    /\ frUrl' = [frUrl EXCEPT ![t] = DefaultUrl]
    /\ frHandle' = [frHandle EXCEPT ![t] = 0]
    /\ frFound' = [frFound EXCEPT ![t] = FALSE]
    /\ UNCHANGED <<frCell, frHeap, frRunner, frInits, frInserted>>

(***************************************************************************)
(* register_store calls that each register a store of their own, and the   *)
(* record of what each returned.                                           *)
(***************************************************************************)
VARIABLES
    regCalls,       \* history: the register_store calls made so far
    regLog          \* history: the register_store calls that have returned

logVars == <<regCalls, regLog>>

\* Bound: the register_store calls of one run.
MaxRegCalls == 3

\* The store the n-th call registers.
StoreName(n) == "S" \o UsizeStr(n)

InitLogVars ==
    /\ regCalls = 0
    /\ regLog = <<>>

\* register_store(url, store) with a store no other call registers.
RegLockFresh(t, u) ==
    /\ regCalls < MaxRegCalls
    /\ RegLock(t, u, StoreName(regCalls + 1))
    /\ regCalls' = regCalls + 1
    /\ UNCHANGED regLog

\* register_store returns (RegWrite2), and the call is recorded with what
\* it returned.
RegWrite2Logged(t) ==
    /\ RegWrite2(t)
    /\ regLog' = Append(regLog, [thread |-> t, url |-> argUrl[t],
                                 store |-> argStore[t],
                                 displaced |-> ret'[t].val])
    /\ UNCHANGED regCalls

(***************************************************************************)
(* The specifications.                                                     *)
(***************************************************************************)
vars == <<regVars, facVars, limVars, ioVars, rtVars, retryVars, cuVars, decVars, frVars, logVars>>

Init ==
    InitRegistryVars /\ InitFactoryVars /\ InitLimitVars /\ InitIoVars /\ InitRtVars
    /\ InitRetryVars
    /\ InitCuVars
    /\ InitDecVars
    /\ InitFrVars
    /\ InitLogVars

\* One caller: any sequence of register_store and get_store calls.
NextRegistrySeq ==
    \/ \E u \in RegUrls, s \in StoreIds : RegLock(1, u, s) /\ UNCHANGED <<facVars, limVars, ioVars, rtVars, retryVars, cuVars, decVars, frVars, logVars>>
    \/ RegWrite1(1) /\ UNCHANGED <<facVars, limVars, ioVars, rtVars, retryVars, cuVars, decVars, frVars, logVars>>
    \/ RegWrite2(1) /\ UNCHANGED <<facVars, limVars, ioVars, rtVars, retryVars, cuVars, decVars, frVars, logVars>>
    \/ \E u \in RegUrls : GetCall(1, u) /\ UNCHANGED <<facVars, limVars, ioVars, rtVars, retryVars, cuVars, decVars, frVars, logVars>>
    \/ GetLock(1) /\ UNCHANGED <<facVars, limVars, ioVars, rtVars, retryVars, cuVars, decVars, frVars, logVars>>
    \/ GetRead(1) /\ UNCHANGED <<facVars, limVars, ioVars, rtVars, retryVars, cuVars, decVars, frVars, logVars>>
    \/ RegReturn(1) /\ UNCHANGED <<facVars, limVars, ioVars, rtVars, retryVars, cuVars, decVars, frVars, logVars>>

SpecRegistrySeq == Init /\ [][NextRegistrySeq]_vars

\* Concurrent callers with no external locking.
NextRegistry ==
    \/ \E t \in Threads, u \in ConcUrls, s \in StoreIds :
          RegLock(t, u, s) /\ UNCHANGED <<facVars, limVars, ioVars, rtVars, retryVars, cuVars, decVars, frVars, logVars>>
    \/ \E t \in Threads : RegWrite1(t) /\ UNCHANGED <<facVars, limVars, ioVars, rtVars, retryVars, cuVars, decVars, frVars, logVars>>
    \/ \E t \in Threads : RegWrite2(t) /\ UNCHANGED <<facVars, limVars, ioVars, rtVars, retryVars, cuVars, decVars, frVars, logVars>>
    \/ \E t \in Threads, u \in ConcUrls : GetCall(t, u) /\ UNCHANGED <<facVars, limVars, ioVars, rtVars, retryVars, cuVars, decVars, frVars, logVars>>
    \/ \E t \in Threads : GetLock(t) /\ UNCHANGED <<facVars, limVars, ioVars, rtVars, retryVars, cuVars, decVars, frVars, logVars>>
    \/ \E t \in Threads : GetRead(t) /\ UNCHANGED <<facVars, limVars, ioVars, rtVars, retryVars, cuVars, decVars, frVars, logVars>>
    \/ \E t \in Threads : RegReturn(t) /\ UNCHANGED <<facVars, limVars, ioVars, rtVars, retryVars, cuVars, decVars, frVars, logVars>>

SpecRegistry == Init /\ [][NextRegistry]_vars

\* What an externally registered factory may answer.
ExtAnswers(id) ==
    { OutOk(Backend("External", id, RootPath), RootPath),
      OutErr(DeltaGeneric("external factory failed")) }

\* Callers of store_for, external registration of factories, and puts
\* through the stores returned; a store is registered in the object store
\* registry all along.
NextFactory ==
    \/ \E url \in StoreForUrls, options \in StoreForOptions :
            StoreForEnter(url, options) /\ UNCHANGED <<regVars, limVars, ioVars, rtVars, retryVars, cuVars, decVars, frVars, logVars>>
    \/ StoreForScheme /\ UNCHANGED <<regVars, limVars, ioVars, rtVars, retryVars, cuVars, decVars, frVars, logVars>>
    \/ StoreForFactories /\ UNCHANGED <<regVars, limVars, ioVars, rtVars, retryVars, cuVars, decVars, frVars, logVars>>
    \/ StoreForLookup /\ UNCHANGED <<regVars, limVars, ioVars, rtVars, retryVars, cuVars, decVars, frVars, logVars>>
    \/ \E ext \in ExtAnswers(FreshId(Len(memObjects))) :
            StoreFor(ext) /\ UNCHANGED <<regVars, limVars, ioVars, rtVars, retryVars, cuVars, decVars, frVars, logVars>>
    \/ \E url \in StoreForUrls, options \in StoreForOptions :
            ParseUrlOptsCall(url, options) /\ UNCHANGED <<regVars, limVars, ioVars, rtVars, retryVars, cuVars, decVars, frVars, logVars>>
    \/ \E scheme \in ExtSchemes : RegisterFactory(scheme) /\ UNCHANGED <<regVars, limVars, ioVars, rtVars, retryVars, cuVars, decVars, frVars, logVars>>
    \/ \E i \in 1 .. Len(handles), location \in PutPaths :
            PutThrough(i, location) /\ UNCHANGED <<regVars, limVars, ioVars, rtVars, retryVars, cuVars, decVars, frVars, logVars>>

InitFactory ==
    /\ InitRetryVars
    /\ InitCuVars
    /\ InitDecVars
    /\ InitFrVars
    /\ InitLogVars
    /\ InitRtVars
    /\ InitFactoryVars
    /\ InitLimitVars
    /\ InitIoVars
    /\ objectStores = [k \in {to_string(DefaultUrl)} |-> Arc("A")]
    /\ shardWriter = [sh \in Shards |-> 0]
    /\ shardReaders = [sh \in Shards |-> {}]
    /\ pc = [t \in Threads |-> "idle"]
    /\ argUrl = [t \in Threads |-> DefaultUrl]
    /\ argStore = [t \in Threads |-> "A"]
    /\ old = [t \in Threads |-> None]
    /\ ret = [t \in Threads |-> NoRet]
    /\ lastReg = [u \in RegUrls |-> IF u = DefaultUrl THEN Some("A") ELSE None]
    /\ expect = [t \in Threads |-> None]
    /\ seen = [t \in Threads |-> {}]

SpecFactory == InitFactory /\ [][NextFactory]_vars

\* limit_store_handler on any option map, then concurrent callers of the
\* store it returned.
NextLimit ==
    \/ LimitBuild /\ UNCHANGED <<regVars, facVars, ioVars, rtVars, retryVars, cuVars, decVars, frVars, logVars>>
    \/ \E c \in Callers : OpCall(c) /\ UNCHANGED <<regVars, facVars, ioVars, rtVars, retryVars, cuVars, decVars, frVars, logVars>>
    \/ \E c \in Callers : OpAdmit(c) /\ UNCHANGED <<regVars, facVars, ioVars, rtVars, retryVars, cuVars, decVars, frVars, logVars>>
    \/ \E c \in Callers : OpComplete(c) /\ UNCHANGED <<regVars, facVars, ioVars, rtVars, retryVars, cuVars, decVars, frVars, logVars>>

InitLimit ==
    /\ InitRetryVars
    /\ InitCuVars
    /\ InitDecVars
    /\ InitFrVars
    /\ InitLogVars
    /\ InitRtVars
    /\ InitRegistryVars
    /\ InitFactoryVars
    /\ InitIoVars
    /\ limOptions \in LimOptionMaps
    /\ limStore = None
    /\ permits = 0
    /\ opPc = [c \in Callers |-> "idle"]

SpecLimit == InitLimit /\ [][NextLimit]_vars

\* Every operation admitted to the inner store completes, and the semaphore
\* of a LimitStore hands its permits out in the order they were asked for,
\* so that no waiting caller is passed over for ever.
OpAdmitted(c) == OpAdmit(c) /\ UNCHANGED <<regVars, facVars, ioVars, rtVars, retryVars, cuVars, decVars, frVars, logVars>>
OpCompleted(c) == OpComplete(c) /\ UNCHANGED <<regVars, facVars, ioVars, rtVars, retryVars, cuVars, decVars, frVars, logVars>>

SpecLimitLive ==
    /\ SpecLimit
    /\ \A c \in Callers : WF_vars(OpCompleted(c)) /\ SF_vars(OpAdmitted(c))

\* The DeltaIOStorageBackend is made with the handle of one of the runtimes.
InitIO ==
    /\ InitRegistryVars /\ InitFactoryVars /\ InitLimitVars /\ InitRtVars
    /\ InitRetryVars
    /\ InitCuVars
    /\ InitDecVars
    /\ InitFrVars
    /\ InitLogVars
    /\ rt_handle \in { Handle(rt) : rt \in IoRuntimes }
    /\ inner = [q \in IoPaths |-> None]
    /\ ioPc = [c \in IoCallers |-> "idle"]
    /\ ioCall = [s \in TaskSlots |-> NoIoCall]
    /\ ioRet = [c \in IoCallers |-> NoRes]
    /\ task = [s \in TaskSlots |-> NoTask]
    /\ ioExpect = [s \in TaskSlots |-> NoExpect]
    /\ ranOn = [s \in TaskSlots |-> {}]

\* Concurrent callers of a DeltaIOStorageBackend that await their calls,
\* the tasks on its runtime, and direct calls on the inner store it shares.
NextIO ==
    \/ \E c \in IoCallers, call \in AllCalls :
          IoSpawn(c, call) /\ UNCHANGED <<regVars, facVars, limVars, rtVars, retryVars, cuVars, decVars, frVars, logVars>>
    \/ \E s \in TaskSlots : TaskStart(s) /\ UNCHANGED <<regVars, facVars, limVars, rtVars, retryVars, cuVars, decVars, frVars, logVars>>
    \/ \E s \in TaskSlots : TaskRun(s) /\ UNCHANGED <<regVars, facVars, limVars, rtVars, retryVars, cuVars, decVars, frVars, logVars>>
    \/ \E s \in TaskSlots : TaskPanic(s) /\ UNCHANGED <<regVars, facVars, limVars, rtVars, retryVars, cuVars, decVars, frVars, logVars>>
    \/ \E s \in TaskSlots : TaskCancel(s) /\ UNCHANGED <<regVars, facVars, limVars, rtVars, retryVars, cuVars, decVars, frVars, logVars>>
    \/ \E c \in IoCallers : IoJoin(c) /\ UNCHANGED <<regVars, facVars, limVars, rtVars, retryVars, cuVars, decVars, frVars, logVars>>
    \/ \E c \in IoCallers, call \in AllCalls :
          IoList(c, call) /\ UNCHANGED <<regVars, facVars, limVars, rtVars, retryVars, cuVars, decVars, frVars, logVars>>
    \/ \E c \in IoCallers : IoListed(c) /\ UNCHANGED <<regVars, facVars, limVars, rtVars, retryVars, cuVars, decVars, frVars, logVars>>
    \/ \E c \in IoCallers : IoReturn(c) /\ UNCHANGED <<regVars, facVars, limVars, rtVars, retryVars, cuVars, decVars, frVars, logVars>>
    \/ \E call \in DirectCalls :
          DirectCall(call) /\ UNCHANGED <<regVars, facVars, limVars, rtVars, retryVars, cuVars, decVars, frVars, logVars>>

SpecIO == InitIO /\ [][NextIO]_vars

\* The runtime of rt_handle, where it runs tasks, polls each task spawned
\* on it, and the inner store's method it awaits completes.
IoTaskStarts(s) ==
    TaskStart(s) /\ UNCHANGED <<regVars, facVars, limVars, rtVars, retryVars, cuVars, decVars, frVars, logVars>>
IoTaskRuns(s) ==
    TaskRun(s) /\ UNCHANGED <<regVars, facVars, limVars, rtVars, retryVars, cuVars, decVars, frVars, logVars>>

\* Callers that put, get, copy, delete and list one object and may abandon
\* their calls, with the runtime running the tasks it is given.
LiveCalls ==
    { call \in SpawnedCalls :
        \/ call.op \in {"get", "delete"} /\ call.a = <<"p">>
        \/ call.op = "put" /\ call.a = <<"p">> /\ call.bytes = <<1>>
        \/ call.op = "copy" /\ call.a = <<"p">> }
LiveListings == { call \in ListingCalls : call.op = "list_with_delimiter" }

NextIOLive ==
    \/ \E c \in IoCallers, call \in LiveCalls : IoSpawn(c, call) /\ UNCHANGED <<regVars, facVars, limVars, rtVars, retryVars, cuVars, decVars, frVars, logVars>>
    \/ \E s \in TaskSlots : IoTaskStarts(s)
    \/ \E s \in TaskSlots : IoTaskRuns(s)
    \/ \E s \in TaskSlots : TaskPanic(s) /\ UNCHANGED <<regVars, facVars, limVars, rtVars, retryVars, cuVars, decVars, frVars, logVars>>
    \/ \E s \in TaskSlots : TaskCancel(s) /\ UNCHANGED <<regVars, facVars, limVars, rtVars, retryVars, cuVars, decVars, frVars, logVars>>
    \/ \E c \in IoCallers : IoJoin(c) /\ UNCHANGED <<regVars, facVars, limVars, rtVars, retryVars, cuVars, decVars, frVars, logVars>>
    \/ \E c \in IoCallers, call \in LiveListings : IoList(c, call) /\ UNCHANGED <<regVars, facVars, limVars, rtVars, retryVars, cuVars, decVars, frVars, logVars>>
    \/ \E c \in IoCallers : IoListed(c) /\ UNCHANGED <<regVars, facVars, limVars, rtVars, retryVars, cuVars, decVars, frVars, logVars>>
    \/ \E c \in IoCallers : IoAbandon(c) /\ UNCHANGED <<regVars, facVars, limVars, rtVars, retryVars, cuVars, decVars, frVars, logVars>>
    \/ \E c \in IoCallers : IoReturn(c) /\ UNCHANGED <<regVars, facVars, limVars, rtVars, retryVars, cuVars, decVars, frVars, logVars>>

SpecIOLive ==
    /\ InitIO /\ [][NextIOLive]_vars
    /\ \A s \in TaskSlots : WF_vars(IoTaskStarts(s)) /\ WF_vars(IoTaskRuns(s))

\* Threads calling IORuntime::default() and IORuntime::get_handle, with a
\* handle of their own or with a configuration.
NextRuntime ==
    \/ \E t \in RtThreads : DefaultCall(t) /\ UNCHANGED <<regVars, facVars, limVars, ioVars, retryVars, cuVars, decVars, frVars, logVars>>
    \/ \E t \in RtThreads, config \in RtConfigs :
          GetHandleConfig(t, config) /\ UNCHANGED <<regVars, facVars, limVars, ioVars, retryVars, cuVars, decVars, frVars, logVars>>
    \/ \E t \in RtThreads : GetHandleRT(t, Handle(OwnRuntime))
                            /\ UNCHANGED <<regVars, facVars, limVars, ioVars, retryVars, cuVars, decVars, frVars, logVars>>
    \/ \E t \in RtThreads : OnceEnter(t) /\ UNCHANGED <<regVars, facVars, limVars, ioVars, retryVars, cuVars, decVars, frVars, logVars>>
    \/ \E t \in RtThreads, built \in BOOLEAN :
          OnceInit(t, built) /\ UNCHANGED <<regVars, facVars, limVars, ioVars, retryVars, cuVars, decVars, frVars, logVars>>
    \/ \E t \in RtThreads : RtReturn(t) /\ UNCHANGED <<regVars, facVars, limVars, ioVars, retryVars, cuVars, decVars, frVars, logVars>>

SpecRuntime == Init /\ [][NextRuntime]_vars

\* parse_retry_config on any of the option maps.
NextRetry ==
    ParseRetryConfig /\ UNCHANGED <<regVars, facVars, limVars, ioVars, rtVars, cuVars, decVars, frVars, logVars>>

InitRetry ==
    /\ InitRegistryVars
    /\ InitFactoryVars
    /\ InitLimitVars
    /\ InitIoVars
    /\ InitRtVars
    /\ InitCuVars
    /\ InitDecVars
    /\ InitFrVars
    /\ InitLogVars
    /\ retryOptions \in RetryOptionMaps
    /\ retryOut = None

SpecRetry == InitRetry /\ [][NextRetry]_vars

\* commit_uri_from_version on any of the versions, twice.
NextCommitUri ==
    CommitUriFromVersion
    /\ UNCHANGED <<regVars, facVars, limVars, ioVars, rtVars, retryVars, decVars, frVars, logVars>>

InitCommitUri ==
    /\ InitRegistryVars
    /\ InitFactoryVars
    /\ InitLimitVars
    /\ InitIoVars
    /\ InitRtVars
    /\ InitRetryVars
    /\ InitDecVars
    /\ InitFrVars
    /\ InitLogVars
    /\ cuVersion \in Versions
    /\ cuOut = None
    /\ cuPrev = None
    /\ deltaLogPath = None

SpecCommitUri == InitCommitUri /\ [][NextCommitUri]_vars

\* The default factory and url_prefix_handler on any of their inputs.
NextDecorate ==
    \/ DecParseUrlOpts
       /\ UNCHANGED <<regVars, facVars, limVars, ioVars, rtVars, retryVars, cuVars, frVars, logVars>>
    \/ DecUrlPrefixHandler
       /\ UNCHANGED <<regVars, facVars, limVars, ioVars, rtVars, retryVars, cuVars, frVars, logVars>>

InitDecorate ==
    /\ InitRegistryVars
    /\ InitFactoryVars
    /\ InitLimitVars
    /\ InitIoVars
    /\ InitRtVars
    /\ InitRetryVars
    /\ InitCuVars
    /\ decUrl \in FacUrls
    /\ decOptions \in DecOptions
    /\ decStore \in DecStores
    /\ decPrefix \in DecPrefixes
    /\ decMade = None
    /\ decPrefixed = None
    /\ InitFrVars
    /\ InitLogVars

SpecDecorate == InitDecorate /\ [][NextDecorate]_vars

\* Threads calling factories(), inserting factories and calling store_for.
NextFactoryRegistry ==
    \/ \E t \in FrThreads : FactoriesCall(t) /\ UNCHANGED <<regVars, facVars, limVars, ioVars, rtVars, retryVars, cuVars, decVars, logVars>>
    \/ \E t \in FrThreads, url \in FrUrls :
          StoreForCall(t, url) /\ UNCHANGED <<regVars, facVars, limVars, ioVars, rtVars, retryVars, cuVars, decVars, logVars>>
    \/ \E t \in FrThreads : FactoriesEnter(t) /\ UNCHANGED <<regVars, facVars, limVars, ioVars, rtVars, retryVars, cuVars, decVars, logVars>>
    \/ \E t \in FrThreads : FactoriesInit(t) /\ UNCHANGED <<regVars, facVars, limVars, ioVars, rtVars, retryVars, cuVars, decVars, logVars>>
    \/ \E t \in FrThreads, key \in FrKeys :
          FactoryInsert(t, key) /\ UNCHANGED <<regVars, facVars, limVars, ioVars, rtVars, retryVars, cuVars, decVars, logVars>>
    \/ \E t \in FrThreads : StoreForGet(t) /\ UNCHANGED <<regVars, facVars, limVars, ioVars, rtVars, retryVars, cuVars, decVars, logVars>>
    \/ \E t \in FrThreads : FrReturn(t) /\ UNCHANGED <<regVars, facVars, limVars, ioVars, rtVars, retryVars, cuVars, decVars, logVars>>

SpecFactoryRegistry == Init /\ [][NextFactoryRegistry]_vars

\* Threads calling register_store, each call with a store of its own.
NextRegistryLog ==
    \/ \E t \in Threads, u \in ConcUrls :
          RegLockFresh(t, u) /\ UNCHANGED <<facVars, limVars, ioVars, rtVars, retryVars, cuVars, decVars, frVars>>
    \/ \E t \in Threads : RegWrite1(t) /\ UNCHANGED <<facVars, limVars, ioVars, rtVars, retryVars, cuVars, decVars, frVars, logVars>>
    \/ \E t \in Threads : RegWrite2Logged(t) /\ UNCHANGED <<facVars, limVars, ioVars, rtVars, retryVars, cuVars, decVars, frVars>>
    \/ \E t \in Threads : RegReturn(t) /\ UNCHANGED <<facVars, limVars, ioVars, rtVars, retryVars, cuVars, decVars, frVars, logVars>>

SpecRegistryLog == Init /\ [][NextRegistryLog]_vars

(***************************************************************************)
(* Claims about the object store registry.                                 *)
(***************************************************************************)
ArcOpt(o) == IF o = None THEN None ELSE Some(Arc(o[1]))

\* C1: register_store(url, S) returns the store most recently registered
\* under exactly that url (None if there was none), and a later
\* get_store(url) returns the store of the most recent register_store for
\* that url.
C1_RegisterReturnsPrevious ==
    \A t \in Threads :
        /\ pc[t] = "reg_done" =>
              ret[t].ok /\ ret[t].val = ArcOpt(expect[t])
        /\ pc[t] = "get_done" /\ expect[t] # None =>
              ret[t] = Ok(Arc(expect[t][1]))

\* register_store(url, B) after register_store(url, A) has returned Some(A).
C1_Witness ==
    \E t \in Threads :
        /\ pc[t] = "reg_done"
        /\ argStore[t] = "B"
        /\ ret[t].val = Some(Arc("A"))
        /\ MapGet(objectStores, to_string(argUrl[t])) = Some(Arc("B"))

GetStep(t) ==
    /\ pc'[t] # pc[t]
    /\ pc'[t] \in {"get_call", "get_locked", "get_done"}

\* C2: get_store(url) on a url with no registered store returns the "not
\* found" error value, registers nothing and leaves the registry's contents
\* unchanged.
C2_GetUnregisteredIsNotFound ==
    /\ [](\A t \in Threads :
            pc[t] = "get_done" /\ expect[t] = None =>
                /\ ~ret[t].ok
                /\ ret[t].val = None
                /\ ret[t].err = DeltaGeneric(NotFoundMsg(argUrl[t])))
    /\ [][\A t \in Threads :
            GetStep(t) => objectStores' = objectStores /\ lastReg' = lastReg]_vars

\* A get_store of an unregistered url has returned, while another url is
\* registered.
C2_Witness ==
    \E t \in Threads :
        /\ pc[t] = "get_done"
        /\ expect[t] = None
        /\ ~ret[t].ok
        /\ DOMAIN objectStores # {}

RegStep(t) ==
    /\ pc'[t] # pc[t]
    /\ pc'[t] \in {"reg_locked", "reg_w1", "reg_done"}

\* C3: entries are keyed by the exact url: register_store(u, S) leaves what
\* get_store(v) returns unchanged for every v # u, and get_store(v) returns
\* only a store registered under v.
C3_ExactUrlKey ==
    /\ [][\A t \in Threads :
            RegStep(t) =>
                \A v \in RegUrls \ {argUrl'[t]} :
                    GetStoreResult(objectStores', v)
                        = GetStoreResult(objectStores, v)]_vars
    /\ [](\A t \in Threads :
            pc[t] = "get_done" /\ ret[t].ok =>
                /\ expect[t] # None
                /\ ret[t].val = ArcOpt(expect[t]))

\* Urls that share scheme and host hold different entries: /a has A, /a?v
\* has B, /b has none, and a register_store has just returned.
C3_Witness ==
    /\ pc[1] = "reg_done"
    /\ GetStoreResult(objectStores, MkUrl("memory", "h", <<"a">>, None))
         = Ok(Arc("A"))
    /\ GetStoreResult(objectStores, MkUrl("memory", "h", <<"a">>, Some("v")))
         = Ok(Arc("B"))
    /\ ~GetStoreResult(objectStores, MkUrl("memory", "h", <<"b">>, None)).ok

Registering(t) == pc[t] \in {"reg_locked", "reg_w1"}

\* C4: under any interleaving the last register_store for a key wins, and a
\* get_store returns, in full, an entry its url had during the call: the old
\* or the new store when a register_store replaces it meanwhile, and never an
\* error while the url stays registered.
C4_ConcurrentGetOldOrNew ==
    /\ \A t \in Threads :
          pc[t] = "get_done" =>
              /\ ret[t].ok =>
                    /\ Whole(ret[t].val[1])
                    /\ Some(ret[t].val[1].data) \in seen[t]
              /\ ~ret[t].ok => None \in seen[t]
    /\ (\A t \in Threads : ~Registering(t)) =>
          \A u \in ConcUrls :
              MapGet(objectStores, to_string(u)) = ArcOpt(lastReg[u])

\* A get_store has returned whose url was registered when it was called and
\* was replaced by a register_store during the call.
C4_Witness ==
    \E t \in Threads :
        /\ pc[t] = "get_done"
        /\ None \notin seen[t]
        /\ Cardinality(seen[t]) = 2
        /\ ret[t].ok

(***************************************************************************)
(* Claims about the factory registry, store_for and the default factory.   *)
(***************************************************************************)
\* C5: store_for(url, options) returns what the factory registered for the
\* url's scheme returns (its store, or its error unchanged, the factory
\* being called once), and the InvalidTableLocation error carrying the url
\* when no factory is registered for the scheme.
C5_StoreForResolvesByScheme ==
    sfLast.api = "store_for" =>
        /\ sfLast.found /\ sfLast.made.kind = "ok" =>
              sfLast.out.kind = "ok" /\ sfLast.out.store = sfLast.made.store
        /\ sfLast.found /\ sfLast.made.kind = "err" => sfLast.out = sfLast.made
        /\ sfLast.found => sfLast.factoryCalls = 1
        /\ ~sfLast.found => sfLast.out = OutErr(InvalidTableLocation(sfLast.url))

IsMemory(store) == store.base.kind = "InMemory"

\* C6: the factory path does not memoize: a store_for call whose scheme has a
\* factory calls it exactly once, the store a memory:// url yields is newly
\* constructed, so that what is put through one returned store is seen
\* through no other, and store_for leaves the object store registry alone.
C6_NoMemoization ==
    /\ [](sfLast.api = "store_for" /\ sfLast.found => sfLast.factoryCalls = 1)
    /\ [](sfLast.api = "store_for" /\ sfLast.out.kind = "ok"
            /\ IsMemory(sfLast.out.store) =>
                sfLast.out.store.base.id > sfLast.storesBefore)
    /\ [](\A i, j \in 1 .. Len(handles) :
            i # j /\ IsMemory(handles[i]) => handles[i].base.id # handles[j].base.id)
    /\ [](\A i \in 1 .. Len(handles) :
            IsMemory(handles[i]) =>
                \A p \in PutPaths : Holds(handles[i], p) <=> p \in written[i])
    /\ [][sfLast' # sfLast => objectStores' = objectStores]_vars

\* Two stores made for the same memory:// url (the same prefix): an object
\* put through the first is not found through the second.
C6_Witness ==
    /\ Len(handles) >= 2
    /\ IsMemory(handles[1]) /\ IsMemory(handles[2])
    /\ handles[1].layers = handles[2].layers
    /\ handles[1].layers # <<>>
    /\ \E p \in PutPaths :
          /\ p \in written[1] /\ Holds(handles[1], p)
          /\ p \notin written[2] /\ ~Holds(handles[2], p)
    /\ DOMAIN objectStores # {}

\* C7: DefaultObjectStoreFactory::parse_url_opts ends, for every url and
\* option map, with a (backend, root path) pair or an error value, never
\* with a panic; an unrecognized scheme and a file:// url that is no local
\* path both give an error value.
C7_ParseUrlOptsNeverPanics ==
    sfLast.api # "" /\ sfLast.made # OutErr(NoError) =>
        /\ sfLast.made.kind \in {"ok", "err"}
        /\ sfLast.api = "parse_url_opts"
             /\ sfLast.url.scheme \notin {"memory", "file"} =>
                sfLast.made.kind = "err"
        /\ sfLast.url.scheme = "file" /\ to_file_path(sfLast.url).kind # "ok" =>
                sfLast.made.kind = "err"

(***************************************************************************)
(* Claims about limit_store_handler.                                       *)
(***************************************************************************)
\* The value of OBJECT_STORE_CONCURRENCY_LIMIT when it is present and is a
\* positive integer, else None.
PositiveLimit(options) ==
    LET v == OptionGet(options, OBJECT_STORE_CONCURRENCY_LIMIT)
        n == IF v = None THEN None ELSE ParseUsize(v[1])
    IN  IF n # None /\ n[1] >= 1 THEN n ELSE None

\* C8: limit_store_handler wraps the store in a LimitStore if and only if
\* OBJECT_STORE_CONCURRENCY_LIMIT is present and is a positive integer N, the
\* limit is then N, and for every other value ("0" too) it returns the input
\* store unwrapped.
C8_LimitIffPositiveInteger ==
    limStore # None =>
        IF PositiveLimit(limOptions) # None
        THEN /\ IsLimited(limStore[1])
             /\ LimitOf(limStore[1]) = PositiveLimit(limOptions)[1]
             /\ LimitOf(limStore[1]) >= 1
        ELSE limStore[1] = Backend("InMemory", 1, RootPath)

\* The limit the options configure: the parsed value of the option.
ConfiguredLimit(options) ==
    ParseUsize(OptionGet(options, OBJECT_STORE_CONCURRENCY_LIMIT)[1])[1]

Completed(c) == ioPc[c] = "done" /\ task[c].state = "finished"

\* C10: a method other than the listing ones that completes without panic
\* or cancellation returns exactly what the same method of the inner store
\* returns (value or error) and leaves the inner store's contents as that
\* method leaves them.
C10_SameAsInner ==
    \A c \in IoCallers :
        /\ Completed(c) => ioRet[c] = ioExpect[c].res /\ ioExpect[c].effect
        /\ task[c].state = "finished" => ioExpect[c].effect

\* A copy_if_not_exists through the wrapper has returned the inner store's
\* AlreadyExists error and left the destination, which holds what was put
\* there before, as it was.
C10_Witness ==
    \E c \in IoCallers :
        /\ Completed(c)
        /\ ioCall[c].op = "copy_if_not_exists"
        /\ ioRet[c] = ResErr("AlreadyExists")
        /\ inner[ioCall[c].a] # None
        /\ inner[ioCall[c].b] # inner[ioCall[c].a]

\* C11: the outcome of a spawned closure (spawn_io_rt and
\* spawn_io_rt_from_to alike): a panic of the task is raised again in the
\* caller and is never turned into a value; a task that could not be joined
\* for another reason gives the caller the JoinError carrying the cause; only
\* a task that ran to completion gives its own result.
C11_OutcomeMapping ==
    \A c \in IoCallers :
        /\ task[c].state = "panicked" => ioPc[c] # "done" /\ ioRet[c] = NoRes
        /\ ioPc[c] = "panicked" => task[c].state = "panicked"
        /\ ioPc[c] = "done" /\ task[c].state = "cancelled" =>
              ioRet[c] = ResErr(JoinError("task was cancelled"))
        /\ ioPc[c] = "done" /\ task[c].state = "finished" =>
              ioRet[c] = task[c].res
        /\ ioPc[c] = "done" /\ ioRet[c].kind = "ok" =>
              task[c].state \in {"none", "finished"}

\* The task of a copy (spawn_io_rt_from_to) has panicked and the panic has
\* been raised again in the caller awaiting it.
C11_Witness ==
    \E c \in IoCallers :
        /\ ioPc[c] = "panicked"
        /\ task[c].state = "panicked"
        /\ ioCall[c].op = "copy"

\* C12: list, list_with_offset and list_with_delimiter spawn no task on
\* the runtime of rt_handle and have the inner store's method run by the
\* caller itself; every other method has the inner store's method run only
\* in the task spawned on that runtime, never by the caller.
C12_ListingOnCallerOthersOnRuntime ==
    \A c \in IoCallers :
        /\ ioCall[c].op \in ListingOps =>
              /\ task[c].state = "none"
              /\ ranOn[c] \subseteq {"caller"}
              /\ ioPc[c] = "done" => ranOn[c] = {"caller"}
        /\ ioCall[c].op \notin ListingOps =>
              /\ ranOn[c] \subseteq {"io_rt"}
              /\ task[c].state = "finished" => ranOn[c] = {"io_rt"}
              /\ ioPc[c] # "idle" => task[c].state # "none"

\* A list_with_offset has returned the listing of a store that holds an
\* object, having spawned no task.
C12_Witness ==
    \E c \in IoCallers :
        /\ ioPc[c] = "done"
        /\ ioCall[c].op = "list_with_offset"
        /\ ranOn[c] = {"caller"}
        /\ task[c].state = "none"
        /\ ioRet[c].paths # {}

(***************************************************************************)
(* Claims about io_rt and IORuntime.                                       *)
(***************************************************************************)
\* The runtime a configuration describes, whichever build it is.
BuiltFrom(rt, config) ==
    LET want == BuilderOf(Some(config), rt.id) IN
    want # None /\ rt = want[1]

\* C13: IORuntime::RT(h).get_handle() returns h itself, and
\* IORuntime::Config(c).get_handle() returns a handle to a runtime built from
\* c (threading mode, worker count, thread name, drivers), whatever calls
\* came before it in the process.
C13_HandleIsOfItsConfig ==
    \A t \in RtThreads :
        rtPc[t] = "done" =>
            /\ rtApi[t] = "rt" => rtRet[t] = Handle(OwnRuntime)
            /\ rtApi[t] = "config" => BuiltFrom(rtRet[t].runtime, rtArg[t][1])

\* C16: the runtime behind io_rt is initialized once: however the first
\* calls of concurrent threads interleave (with a configuration or without),
\* no second runtime is ever built, every call that returns gives a handle
\* to the one runtime that was built, and IO_RT, once set, stays as it is.
C16_InitializedOnce ==
    /\ [](Len(rtBuilt) <= 1)
    /\ [](IO_RT # None => rtBuilt = <<IO_RT[1]>>)
    /\ [](\A t \in RtThreads :
            rtPc[t] = "done" /\ rtApi[t] # "rt" =>
                IO_RT # None /\ rtRet[t] = Handle(IO_RT[1]))
    /\ [][IO_RT # None => IO_RT' = IO_RT /\ rtBuilt' = rtBuilt]_vars

\* Two threads, one through IORuntime::default() and one with a
\* configuration, have both returned, with handles to the one runtime built.
C16_Witness ==
    \E t, u \in RtThreads :
        /\ rtPc[t] = "done" /\ rtApi[t] = "default"
        /\ rtPc[u] = "done" /\ rtApi[u] = "config"
        /\ rtRet[t] = rtRet[u]
        /\ rtBuilt = <<rtRet[u].runtime>>
        /\ rtRet[u].runtime.name = "IO-runtime"

(***************************************************************************)
(* Claims about parse_retry_config.                                        *)
(***************************************************************************)
Contains(text, part) ==
    \E i \in 1 .. Len(text) - Len(part) + 1 :
        SubSeq(text, i, i + Len(part) - 1) = part

\* The value a recognized key's string parses to, None if it does not parse.
RetryFieldOf(key, v) ==
    CASE key = "max_retries" -> ParseUsize(v)
      [] key = "backoff_config.base" -> ParseF64(v)
      [] OTHER -> IF parse_duration(v).kind = "ok"
                  THEN Some(parse_duration(v).d) ELSE None
RetryKeys == DOMAIN RetryValues \ {"region"}
BadRetryKeys(options) ==
    { k \in RetryKeys \cap DOMAIN options : RetryFieldOf(k, options[k]) = None }

\* C14: parse_retry_config returns an error, and no RetryConfig, as soon as
\* a recognized key that is present has a value that does not parse, and the
\* error's message names that key and its raw value; with every present key
\* valid it succeeds, absent keys leaving their fields at the default.
C14_RetryParseFailsNamingKeyAndValue ==
    retryOut # None =>
        LET out == retryOut[1]
            bad == BadRetryKeys(retryOptions) IN
        /\ bad # {} =>
              /\ ~out.ok /\ out.val = None
              /\ \E k \in bad :
                    /\ Contains(out.err.msg, k)
                    /\ Contains(out.err.msg, Str(retryOptions[k]))
        /\ bad = {} =>
              /\ out.ok
              /\ \A k \in RetryKeys :
                    RetryField(out.val[1], k) =
                        IF k \in DOMAIN retryOptions
                        THEN RetryFieldOf(k, retryOptions[k])[1]
                        ELSE RetryField(RetryConfigDefault, k)

(***************************************************************************)
(* Claims about commit_uri_from_version.                                   *)
(***************************************************************************)
\* The digits a string of decimal digits stands for, without leading zeros.
DigitsOfName(name) ==
    LET d == StripZeros([i \in 1 .. Len(name) |-> DigitVal(SubSeq(name, i, i))])
    IN  IF d = <<>> THEN <<0>> ELSE d

\* C15: for every i64 version, commit_uri_from_version gives the path
\* _delta_log/<name>.json whose name is exactly 20 decimal digits, the
\* version padded with zeros on the left; the same version gives the same
\* path.
C15_TwentyDigitCommitUri ==
    cuOut # None =>
        LET path == cuOut[1]
            file == path[2] IN
        /\ Len(path) = 2 /\ path[1] = "_delta_log"
        /\ Len(file) = 25
        /\ SubSeq(file, 21, 25) = ".json"
        /\ \A i \in 1 .. 20 : IsDigit(SubSeq(file, i, i))
        /\ DigitsOfName(SubSeq(file, 1, 20)) = cuVersion.digits
        /\ ~cuVersion.neg
        /\ cuPrev # None => cuPrev = cuOut

(***************************************************************************)
(* Claims about abandoned calls of DeltaIOStorageBackend.                  *)
(***************************************************************************)
Abandoned(c) == ioPc[c] = "abandoned"
\* The task of a slot has ended as a task left to itself should: it ran to
\* completion on the runtime with its effect on the inner store, or it
\* panicked or the runtime dropped it.
Ended(s) ==
    \/ task[s].state = "finished" /\ ioExpect[s].effect /\ ranOn[s] = {"io_rt"}
    \/ task[s].state \in {"panicked", "cancelled"}

\* C17: once a call has spawned its task, a caller that stops awaiting does
\* not cancel it: abandoning leaves the task as it is, and so does the
\* caller's going on; the task still runs to completion on the runtime with
\* its effect on the inner store (unless it panics or the runtime drops it),
\* and the abandoning caller never gets a success result for the call.
C17_AbandonedTaskStillRuns ==
    /\ [][\A c \in IoCallers :
            ~Abandoned(c) /\ Abandoned(c)' => task'[c] = task[c]]_vars
    /\ [][\A c \in IoCallers :
            Abandoned(c) /\ ~Abandoned(c)' /\ task[c].state \in Pending =>
                \E s \in DetachedSlots : task'[s] = task[c]]_vars
    /\ [](\A c \in IoCallers : Abandoned(c) => ioRet[c] = NoRes)
    /\ \A c \in IoCallers :
          (Abandoned(c) /\ task[c].state \in Pending)
              ~> (Ended(c) \/ ~Abandoned(c))
    /\ \A s \in DetachedSlots : (task[s].state \in Pending) ~> Ended(s)

(***************************************************************************)
(* Claims about the liveness of the store limit_store_handler returns.     *)
(***************************************************************************)
\* C18: for a store made by limit_store_handler with a limit configured,
\* when every admitted operation completes, every operation waiting for a
\* permit is eventually admitted to the inner store and completes; none
\* stays blocked for ever.
C18_WaitingIsAdmitted ==
    \A c \in Callers :
        /\ (opPc[c] = "waiting" /\ limStore # None /\ IsLimited(limStore[1]))
              ~> opPc[c] = "inflight"
        /\ opPc[c] = "inflight" ~> opPc[c] = "idle"

(***************************************************************************)
(* Claims about the composition of decorators.                             *)
(***************************************************************************)
\* The layers limit_store_handler adds for the options: a LimitStore of the
\* limit when OBJECT_STORE_CONCURRENCY_LIMIT is present and is an integer.
LimitLayers(options) ==
    IF OBJECT_STORE_CONCURRENCY_LIMIT \in DOMAIN options
       /\ ParseUsize(options[OBJECT_STORE_CONCURRENCY_LIMIT]) # None
    THEN <<Layer("LimitStore",
                 ParseUsize(options[OBJECT_STORE_CONCURRENCY_LIMIT])[1], RootPath)>>
    ELSE <<>>
PrefixLayers(path) ==
    IF path # RootPath THEN <<Layer("PrefixStore", 0, path)>> ELSE <<>>

\* C19: what DefaultObjectStoreFactory returns for memory:// is the in-memory
\* store, in a prefix decorator exactly when the url's path is not the root,
\* and around that, outermost, in the limit decorator exactly when a limit is
\* configured (the option is present and is an integer), with the decoded
\* path as root path; for file:// there is never a prefix decorator, the
\* limit decorator is there exactly when a limit is configured, and the root
\* path is "/".
C19_DecoratorComposition ==
    decMade # None /\ decMade[1].kind = "ok" =>
        LET store == decMade[1].store
            root == decMade[1].path IN
        /\ decUrl.scheme \in {"memory", "file"}
        /\ decUrl.scheme = "memory" =>
              /\ store.base = [kind |-> "InMemory", id |-> 1, root |-> RootPath]
              /\ store.layers = LimitLayers(decOptions) \o PrefixLayers(root)
              /\ root = from_url_path(UrlPath(decUrl)).path
        /\ decUrl.scheme = "file" =>
              /\ store.base.kind = "LocalFileSystem"
              /\ store.layers = LimitLayers(decOptions)
              /\ root = RootPath

\* memory://h/%41/b/ with a limit of 500: the LimitStore is around the
\* PrefixStore of A/b, which is the root path returned.
C19_Witness ==
    /\ decMade # None
    /\ decMade[1].kind = "ok"
    /\ decUrl.scheme = "memory"
    /\ decMade[1].path = <<"A", "b">>
    /\ Display(decMade[1].store) = "LimitStore(500, PrefixObjectStore(A/b))"

\* C20: url_prefix_handler(store, prefix) adds a prefix layer if and only if
\* the prefix is not the root path: for the root the store returned is the
\* input store, displayed as it is; for any other prefix it is a PrefixStore
\* of exactly that prefix around the input store.
C20_PrefixIffNotRoot ==
    decPrefixed # None =>
        LET out == decPrefixed[1] IN
        /\ decPrefix = RootPath =>
              out = decStore /\ Display(out) = Display(decStore)
        /\ decPrefix # RootPath =>
              /\ out.base = decStore.base
              /\ out.layers = <<Layer("PrefixStore", 0, decPrefix)>> \o decStore.layers
              /\ Display(out) = "PrefixObjectStore(" \o PathDisplay(decPrefix) \o ")"

\* The prefix databases/foo/bar around an in-memory store.
C20_Witness ==
    /\ decPrefixed # None
    /\ decStore = Backend("InMemory", 1, RootPath)
    /\ Display(decStore) = "InMemory"
    /\ Display(decPrefixed[1]) = "PrefixObjectStore(databases/foo/bar)"

(***************************************************************************)
(* Claims about the factory registry.                                      *)
(***************************************************************************)
\* The schemes keys and urls are made of, and whether a key is the Url of
\* "<scheme>://" for one of them.
FrSchemes == { u.scheme : u \in FrKeys \cup FrUrls } \cup {"memory", "file"}
SchemeOnly(key) == \E scheme \in FrSchemes : ParseSchemeUrl(scheme) = Some(key)

\* The parts of the invariant: every handle is the one registry of REGISTRY;
\* the initializer has run once, leaving factories for memory and file;
\* every key is the Url of "<scheme>://"; a store_for for the scheme of an
\* inserted key finds a factory.
FrShared ==
    \A t \in FrThreads :
        frHandle[t] # 0 => frCell # None /\ frHandle[t] = frCell[1]
FrInitializedOnce ==
    /\ frInits <= 1
    /\ Len(frHeap) = frInits
    /\ frCell # None =>
         /\ frInits = 1
         /\ DOMAIN BuiltinFactories \subseteq DOMAIN frHeap[frCell[1]]
FrKeysSchemeOnly ==
    frCell # None => \A key \in DOMAIN frHeap[frCell[1]] : SchemeOnly(key)
FrLookupFinds ==
    \A t \in FrThreads :
        (frPc[t] = "done" /\ \E key \in frInserted : key.scheme = frUrl[t].scheme)
            => frFound[t]

\* C21: factories() gives every caller the same process-wide registry,
\* initialized exactly once with factories for memory and file, and in every
\* reachable state, also after registrations by external code, every key has
\* the form "<scheme>://", so that store_for's lookup by "<scheme>://" finds
\* every registered factory.
C21_FactoryRegistryInvariant ==
    FrShared /\ FrInitializedOnce /\ FrKeysSchemeOnly /\ FrLookupFinds

(***************************************************************************)
(* Claims about concurrent registrations.                                  *)
(***************************************************************************)
\* The returned register_store calls on a url, and those of them that
\* returned the store as the displaced value.
CallsOn(u) == { i \in 1 .. Len(regLog) : regLog[i].url = u }
DisplacedBy(u, store) ==
    { i \in CallsOn(u) : regLog[i].displaced = Some(Arc(store)) }
AllReturned == \A t \in Threads : ~Registering(t)

\* C22: once all register_store calls have returned, each store registered
\* under a url is the url's current entry or was returned as the displaced
\* value by exactly one call, no store was returned as displaced by two
\* calls, and exactly one of the calls on the url returned None.
C22_NoStoreLostOrDuplicated ==
    AllReturned =>
        \A u \in ConcUrls :
            /\ \A i \in CallsOn(u) :
                  /\ \/ MapGet(objectStores, KeyOf(u)) = Some(Arc(regLog[i].store))
                     \/ Cardinality(DisplacedBy(u, regLog[i].store)) = 1
                  /\ Cardinality(DisplacedBy(u, regLog[i].store)) <= 1
            /\ CallsOn(u) # {} =>
                  Cardinality({ i \in CallsOn(u) : regLog[i].displaced = None }) = 1

\* All the calls have returned, and calls of different threads registered
\* under the same url, one displacing the store of the other.
C22_Witness ==
    /\ AllReturned
    /\ Len(regLog) = MaxRegCalls
    /\ \E u \in ConcUrls : \E i, j \in CallsOn(u) :
          /\ regLog[i].thread # regLog[j].thread
          /\ regLog[j].displaced = Some(Arc(regLog[i].store))

====
